---------------------------- MODULE Spec2Model ----------------------------
(***************************************************************************)
(* MOS-DEF (Monitor Orientation Switcher): the command-line front end      *)
(* (cli.c), the selector engine (util.c) and the rotation / rollback       *)
(* engine (rotate.c), over an abstract Win32 display layer.                *)
(*                                                                         *)
(* C strings are TLA+ strings (TLC evaluates Len, \o and SubSeq on them);  *)
(* a nullable char* is a sequence of at most one string; a nullable        *)
(* pointer to a struct is a record, the null pointer being NullPtr.        *)
(* Heap allocation is assumed to succeed.                                  *)
(***************************************************************************)
EXTENDS Integers, Sequences, FiniteSets, TLC

(***************************************************************************)
(* Bounds of the model.                                                    *)
(***************************************************************************)
MaxMonitors == 3        \* display devices attached to the machine
MaxRevertSeconds == 2   \* largest value given to --revert-seconds
MaxFaults == 1          \* failing reads, writes and saves, and orientation
                        \* changes made by other programs, in one run

(***************************************************************************)
(* Win32 constants (wingdi.h / winuser.h) used by the sources.             *)
(***************************************************************************)
DMDO_DEFAULT == 0
DMDO_90 == 1
DMDO_180 == 2
DMDO_270 == 3
DISP_CHANGE_SUCCESSFUL == 0
DISP_CHANGE_FAILED == 0 - 1
DISP_CHANGE_BADMODE == 0 - 2
DISP_CHANGE_BADPARAM == 0 - 5

Orientations == {DMDO_DEFAULT, DMDO_90, DMDO_180, DMDO_270}

\* Result codes the display writer can return.
WriterCodes == {DISP_CHANGE_SUCCESSFUL, DISP_CHANGE_FAILED}

NullPtr == [null |-> TRUE]
IsNull(p) == "null" \in DOMAIN p

(***************************************************************************)
(* C library helpers.                                                      *)
(***************************************************************************)
CharAt(s, i) == SubSeq(s, i, i)

isspace(c) == c \in {" ", "\t", "\n", "\r", "\f"}

isdigit(c) == c \in {"0", "1", "2", "3", "4", "5", "6", "7", "8", "9"}

UpperChars == "ABCDEFGHIJKLMNOPQRSTUVWXYZ"
LowerChars == "abcdefghijklmnopqrstuvwxyz"

\* The lower-case letter of each upper-case letter.
LowerOf ==
    [u \in {CharAt(UpperChars, k) : k \in 1..Len(UpperChars)} |->
        CharAt(LowerChars, CHOOSE k \in 1..Len(UpperChars) : CharAt(UpperChars, k) = u)]

tolower(c) == IF c \in DOMAIN LowerOf THEN LowerOf[c] ELSE c

\* strrchr(s, c) as a 1-based position in s, 0 when c does not occur.
strrchr(s, c) ==
    IF \E k \in 1..Len(s) : CharAt(s, k) = c
    THEN CHOOSE k \in 1..Len(s) :
            /\ CharAt(s, k) = c
            /\ \A m \in (k + 1)..Len(s) : CharAt(s, m) # c
    ELSE 0

RECURSIVE DigitsValue(_, _, _)
DigitsValue(s, i, acc) ==
    IF i <= Len(s) /\ isdigit(CharAt(s, i))
    THEN DigitsValue(s, i + 1,
             acc * 10 + (CHOOSE d \in 0..9 : CharAt("0123456789", d + 1) = CharAt(s, i)))
    ELSE acc

RECURSIVE SkipSpaces(_, _)
SkipSpaces(s, i) ==
    IF i <= Len(s) /\ isspace(CharAt(s, i)) THEN SkipSpaces(s, i + 1) ELSE i

\* atoi: leading white space, an optional sign, then decimal digits.
atoi(s) ==
    LET i == SkipSpaces(s, 1)
    IN  IF i <= Len(s) /\ CharAt(s, i) = "-" THEN 0 - DigitsValue(s, i + 1, 0)
        ELSE IF i <= Len(s) /\ CharAt(s, i) = "+" THEN DigitsValue(s, i + 1, 0)
        ELSE DigitsValue(s, i, 0)

\* The "%d" conversion of a non-negative int.
RECURSIVE IntToStr(_)
IntToStr(n) ==
    IF n < 10 THEN CharAt("0123456789", n + 1)
    ELSE IntToStr(n \div 10) \o CharAt("0123456789", (n % 10) + 1)

(***************************************************************************)
(* util.c: string utilities.                                               *)
(***************************************************************************)
str_starts_with(str, prefix) ==
    /\ Len(prefix) <= Len(str)
    /\ SubSeq(str, 1, Len(prefix)) = prefix

str_contains(str, substring) ==
    \E k \in 1..(Len(str) + 1) :
        /\ k + Len(substring) - 1 <= Len(str)
        /\ SubSeq(str, k, k + Len(substring) - 1) = substring

RECURSIVE TrimTrailing(_)
TrimTrailing(s) ==
    IF Len(s) > 1 /\ isspace(CharAt(s, Len(s)))
    THEN TrimTrailing(SubSeq(s, 1, Len(s) - 1))
    ELSE s

str_trim(str) ==
    LET i == SkipSpaces(str, 1)
    IN  TrimTrailing(SubSeq(str, i, Len(str)))

RECURSIVE str_to_lower(_)
str_to_lower(str) ==
    IF Len(str) = 0 THEN ""
    ELSE tolower(CharAt(str, 1)) \o str_to_lower(SubSeq(str, 2, Len(str)))

\* Number of occurrences of the one-character delimiter.
RECURSIVE CountDelim(_, _)
CountDelim(str, delim) ==
    IF Len(str) = 0 THEN 0
    ELSE (IF CharAt(str, 1) = delim THEN 1 ELSE 0)
             + CountDelim(SubSeq(str, 2, Len(str)), delim)

\* strtok: the maximal non-empty runs of non-delimiter characters.
RECURSIVE StrtokAll(_, _, _)
StrtokAll(str, delim, cur) ==
    IF Len(str) = 0
    THEN (IF Len(cur) > 0 THEN <<cur>> ELSE << >>)
    ELSE IF CharAt(str, 1) = delim
         THEN (IF Len(cur) > 0 THEN <<cur>> ELSE << >>)
                  \o StrtokAll(SubSeq(str, 2, Len(str)), delim, "")
         ELSE StrtokAll(SubSeq(str, 2, Len(str)), delim, cur \o CharAt(str, 1))

\* str_split: count is (delimiters + 1); only the strtok tokens are stored,
\* each trimmed.  The slots beyond the tokens stay uninitialised.
str_split(str, delim) ==
    LET toks == StrtokAll(str, delim, "")
    IN  [count |-> CountDelim(str, delim) + 1,
         parts |-> [k \in 1..Len(toks) |-> str_trim(toks[k])]]

(***************************************************************************)
(* util.c: selectors.                                                      *)
(***************************************************************************)
SELECTOR_TYPE_MONITOR_ID == "MONITOR_ID"
SELECTOR_TYPE_DEVICE_PATH == "DEVICE_PATH"
SELECTOR_TYPE_DEVICE_NAME == "DEVICE_NAME"

\* The text between the opening quote (after `skip` characters) and the
\* last quote of the string; no selector when there is no closing quote.
QuotedSelector(type, selector_str, skip) ==
    LET start == SubSeq(selector_str, skip + 1, Len(selector_str))
        end == strrchr(start, "\"")
    IN  IF end > 0
        THEN [type |-> type, value |-> SubSeq(start, 1, end - 1)]
        ELSE NullPtr

parse_selector(selector_str) ==
    IF Len(selector_str) >= 2 /\ CharAt(selector_str, 1) = "M"
           /\ isdigit(CharAt(selector_str, 2))
    THEN [type |-> SELECTOR_TYPE_MONITOR_ID, value |-> selector_str]
    ELSE IF str_starts_with(selector_str, "device:\"")
    THEN QuotedSelector(SELECTOR_TYPE_DEVICE_PATH, selector_str, 8)
    ELSE IF str_starts_with(selector_str, "name:\"")
    THEN QuotedSelector(SELECTOR_TYPE_DEVICE_NAME, selector_str, 6)
    ELSE [type |-> SELECTOR_TYPE_MONITOR_ID, value |-> selector_str]

RECURSIVE ParseParts(_)
ParseParts(parts) ==
    IF Len(parts) = 0 THEN << >>
    ELSE LET sel == parse_selector(Head(parts))
         IN  (IF IsNull(sel) THEN << >> ELSE <<sel>>) \o ParseParts(Tail(parts))

\* A SelectorList is its array of selectors; list->count is Len.
parse_selector_list(selector_list_str) ==
    LET selectors == ParseParts(str_split(selector_list_str, ",").parts)
    IN  IF Len(selectors) = 0 THEN NullPtr
        ELSE [selectors |-> selectors, count |-> Len(selectors)]

\* Variant: the name selector compares without folding case.
matches_monitor_CaseSensitive(selector, monitor_id, device_path, device_name) ==
    CASE selector.type = SELECTOR_TYPE_MONITOR_ID -> monitor_id = selector.value
      [] selector.type = SELECTOR_TYPE_DEVICE_PATH -> device_path = selector.value
      [] selector.type = SELECTOR_TYPE_DEVICE_NAME ->
            str_contains(device_name, selector.value)
      [] OTHER -> FALSE

matches_monitor(selector, monitor_id, device_path, device_name) ==
    CASE selector.type = SELECTOR_TYPE_MONITOR_ID -> monitor_id = selector.value
      [] selector.type = SELECTOR_TYPE_DEVICE_PATH -> device_path = selector.value
      [] selector.type = SELECTOR_TYPE_DEVICE_NAME ->
            str_contains(str_to_lower(device_name), str_to_lower(selector.value))
      [] OTHER -> FALSE

(***************************************************************************)
(* The display layer.  Device d is DeviceName \\.\DISPLAYd; its current    *)
(* mode is display[d].  A read (EnumDisplaySettingsExA) succeeds or fails  *)
(* as the environment decides; a write (ChangeDisplaySettingsExA) returns  *)
(* the code the environment decides and, on success, installs the fields   *)
(* of the DEVMODE that dmFields selects.                                   *)
(***************************************************************************)
Devices == 1..MaxMonitors

DeviceName(d) == "\\\\.\\DISPLAY" \o IntToStr(d)

DeviceString(d) ==
    CASE d = 1 -> "Dell U2720Q"
      [] d = 2 -> "LG TV"
      [] d = 3 -> "DELL P2419H"
      [] OTHER -> "Generic PnP Monitor"

DevOf(device_path) == CHOOSE d \in Devices : DeviceName(d) = device_path

DM_DISPLAYORIENTATION == "DM_DISPLAYORIENTATION"
DM_PELSWIDTH == "DM_PELSWIDTH"
DM_PELSHEIGHT == "DM_PELSHEIGHT"

\* What a successful read of device d's current settings fills in.
CurrentSettings(disp, device_path) ==
    [dmDisplayOrientation |-> disp[DevOf(device_path)].orientation,
     dmPelsWidth |-> disp[DevOf(device_path)].width,
     dmPelsHeight |-> disp[DevOf(device_path)].height,
     dmFields |-> {DM_DISPLAYORIENTATION, DM_PELSWIDTH, DM_PELSHEIGHT}]

\* The display state after a write that returned `code`.
ApplySettings(disp, device_path, devmode, code) ==
    IF code # DISP_CHANGE_SUCCESSFUL THEN disp
    ELSE [disp EXCEPT ![DevOf(device_path)] =
            [orientation |-> IF DM_DISPLAYORIENTATION \in devmode.dmFields
                             THEN devmode.dmDisplayOrientation ELSE @.orientation,
             width |-> IF DM_PELSWIDTH \in devmode.dmFields
                       THEN devmode.dmPelsWidth ELSE @.width,
             height |-> IF DM_PELSHEIGHT \in devmode.dmFields
                        THEN devmode.dmPelsHeight ELSE @.height]]

\* One entry of the log of display-reader calls.
ReadCall(device_path, ok, by) ==
    [device_path |-> device_path, ok |-> ok, by |-> by]

\* One entry of the log of display-writer calls.
WriteCall(device_path, devmode, code, by) ==
    [device_path |-> device_path, devmode |-> devmode, code |-> code, by |-> by]

(***************************************************************************)
(* rotate.c: orientation utilities.                                        *)
(***************************************************************************)
ROTATION_LANDSCAPE == "landscape"
ROTATION_PORTRAIT == "portrait"
ROTATION_TOGGLE == "toggle"
RotationCommands == {ROTATION_LANDSCAPE, ROTATION_PORTRAIT, ROTATION_TOGGLE}

\* Variant: toggle leaves portrait only from 90 degrees.
get_target_orientation_ToggleFrom90(current_orientation, command) ==
    CASE command = ROTATION_LANDSCAPE -> DMDO_DEFAULT
      [] command = ROTATION_PORTRAIT -> DMDO_90
      [] command = ROTATION_TOGGLE ->
            IF current_orientation = DMDO_90 THEN DMDO_DEFAULT ELSE DMDO_90
      [] OTHER -> current_orientation

\* Variant: toggle advances a quarter turn.
get_target_orientation_QuarterTurn(current_orientation, command) ==
    CASE command = ROTATION_LANDSCAPE -> DMDO_DEFAULT
      [] command = ROTATION_PORTRAIT -> DMDO_90
      [] command = ROTATION_TOGGLE -> (current_orientation + 1) % 4
      [] OTHER -> current_orientation

get_target_orientation(current_orientation, command) ==
    CASE command = ROTATION_LANDSCAPE -> DMDO_DEFAULT
      [] command = ROTATION_PORTRAIT -> DMDO_90
      [] command = ROTATION_TOGGLE ->
            IF current_orientation = DMDO_DEFAULT THEN DMDO_90 ELSE DMDO_DEFAULT
      [] OTHER -> current_orientation

\* Variant: the dimensions are exchanged whenever the orientation changes.
should_swap_dimensions_OnChange(from_orientation, to_orientation) ==
    from_orientation # to_orientation

should_swap_dimensions(from_orientation, to_orientation) ==
    LET from_is_portrait == from_orientation = DMDO_90 \/ from_orientation = DMDO_270
        to_is_portrait == to_orientation = DMDO_90 \/ to_orientation = DMDO_270
    IN  from_is_portrait # to_is_portrait

(***************************************************************************)
(* rotate.c: rotation of one monitor.  readOk and code are what the        *)
(* display layer answers to this call's read and write.  The value is the  *)
(* RotationResult, the display state afterwards and the reader and writer  *)
(* calls made.                                                             *)
(***************************************************************************)
\* Variant: the dry_run flag is not honoured.
rotate_monitor_DryRunWrites(monitor, command, dry_run, disp, readOk, code) ==
    IF ~readOk
    THEN [result |-> [success |-> FALSE, error_code |-> DISP_CHANGE_BADMODE,
                      old_orientation |-> 0, new_orientation |-> 0],
          disp |-> disp, writes |-> << >>,
          reads |-> <<ReadCall(monitor.device_path, FALSE, "rotate")>>]
    ELSE
    LET devmode == CurrentSettings(disp, monitor.device_path)
        old_orientation == devmode.dmDisplayOrientation
        new_orientation == get_target_orientation(devmode.dmDisplayOrientation, command)
        swap == should_swap_dimensions(old_orientation, new_orientation)
        new_devmode ==
            [dmDisplayOrientation |-> new_orientation,
             dmPelsWidth |-> IF swap THEN devmode.dmPelsHeight ELSE devmode.dmPelsWidth,
             dmPelsHeight |-> IF swap THEN devmode.dmPelsWidth ELSE devmode.dmPelsHeight,
             dmFields |-> devmode.dmFields \cup {DM_DISPLAYORIENTATION}
                             \cup (IF swap THEN {DM_PELSWIDTH, DM_PELSHEIGHT} ELSE {})]
    IN  IF FALSE
        THEN [result |-> [success |-> TRUE, error_code |-> 0,
                          old_orientation |-> old_orientation,
                          new_orientation |-> new_orientation],
              disp |-> disp, writes |-> << >>,
              reads |-> <<ReadCall(monitor.device_path, TRUE, "rotate")>>]
        ELSE [result |-> [success |-> code = DISP_CHANGE_SUCCESSFUL,
                          error_code |-> code,
                          old_orientation |-> old_orientation,
                          new_orientation |-> new_orientation],
              disp |-> ApplySettings(disp, monitor.device_path, new_devmode, code),
              writes |-> <<WriteCall(monitor.device_path, new_devmode, code, "rotate")>>,
              reads |-> <<ReadCall(monitor.device_path, TRUE, "rotate")>>]

\* Variant: a dry run reports success even when the read fails.
rotate_monitor_DryRunAlwaysSucceeds(monitor, command, dry_run, disp, readOk, code) ==
    IF ~readOk
    THEN [result |-> [success |-> dry_run,
                      error_code |-> IF dry_run THEN 0 ELSE DISP_CHANGE_BADMODE,
                      old_orientation |-> 0, new_orientation |-> 0],
          disp |-> disp, writes |-> << >>,
          reads |-> <<ReadCall(monitor.device_path, FALSE, "rotate")>>]
    ELSE
    LET devmode == CurrentSettings(disp, monitor.device_path)
        old_orientation == devmode.dmDisplayOrientation
        new_orientation == get_target_orientation(devmode.dmDisplayOrientation, command)
        swap == should_swap_dimensions(old_orientation, new_orientation)
        new_devmode ==
            [dmDisplayOrientation |-> new_orientation,
             dmPelsWidth |-> IF swap THEN devmode.dmPelsHeight ELSE devmode.dmPelsWidth,
             dmPelsHeight |-> IF swap THEN devmode.dmPelsWidth ELSE devmode.dmPelsHeight,
             dmFields |-> devmode.dmFields \cup {DM_DISPLAYORIENTATION}
                             \cup (IF swap THEN {DM_PELSWIDTH, DM_PELSHEIGHT} ELSE {})]
    IN  IF dry_run
        THEN [result |-> [success |-> TRUE, error_code |-> 0,
                          old_orientation |-> old_orientation,
                          new_orientation |-> new_orientation],
              disp |-> disp, writes |-> << >>,
              reads |-> <<ReadCall(monitor.device_path, TRUE, "rotate")>>]
        ELSE [result |-> [success |-> code = DISP_CHANGE_SUCCESSFUL,
                          error_code |-> code,
                          old_orientation |-> old_orientation,
                          new_orientation |-> new_orientation],
              disp |-> ApplySettings(disp, monitor.device_path, new_devmode, code),
              writes |-> <<WriteCall(monitor.device_path, new_devmode, code, "rotate")>>,
              reads |-> <<ReadCall(monitor.device_path, TRUE, "rotate")>>]

\* rotate_monitor: live read, target orientation, dimension swap, dry-run
\* return, write.
rotate_monitor(monitor, command, dry_run, disp, readOk, code) ==
    IF ~readOk
    THEN [result |-> [success |-> FALSE, error_code |-> DISP_CHANGE_BADMODE,
                      old_orientation |-> 0, new_orientation |-> 0],
          disp |-> disp, writes |-> << >>,
          reads |-> <<ReadCall(monitor.device_path, FALSE, "rotate")>>]
    ELSE
    LET devmode == CurrentSettings(disp, monitor.device_path)
        old_orientation == devmode.dmDisplayOrientation
        new_orientation == get_target_orientation(devmode.dmDisplayOrientation, command)
        swap == should_swap_dimensions(old_orientation, new_orientation)
        new_devmode ==
            [dmDisplayOrientation |-> new_orientation,
             dmPelsWidth |-> IF swap THEN devmode.dmPelsHeight ELSE devmode.dmPelsWidth,
             dmPelsHeight |-> IF swap THEN devmode.dmPelsWidth ELSE devmode.dmPelsHeight,
             dmFields |-> devmode.dmFields \cup {DM_DISPLAYORIENTATION}
                             \cup (IF swap THEN {DM_PELSWIDTH, DM_PELSHEIGHT} ELSE {})]
    IN  IF dry_run
        THEN [result |-> [success |-> TRUE, error_code |-> 0,
                          old_orientation |-> old_orientation,
                          new_orientation |-> new_orientation],
              disp |-> disp, writes |-> << >>,
              reads |-> <<ReadCall(monitor.device_path, TRUE, "rotate")>>]
        ELSE [result |-> [success |-> code = DISP_CHANGE_SUCCESSFUL,
                          error_code |-> code,
                          old_orientation |-> old_orientation,
                          new_orientation |-> new_orientation],
              disp |-> ApplySettings(disp, monitor.device_path, new_devmode, code),
              writes |-> <<WriteCall(monitor.device_path, new_devmode, code, "rotate")>>,
              reads |-> <<ReadCall(monitor.device_path, TRUE, "rotate")>>]

(***************************************************************************)
(* rotate.c: batch rotation with selector filtering.                       *)
(***************************************************************************)
\* for (j...) if (matches_monitor(...)) over a selector list
MatchesAny(selectors, monitor) ==
    \E j \in 1..selectors.count :
        matches_monitor(selectors.selectors[j],
                        monitor.id, monitor.device_path, monitor.device_name)

\* Variant: a monitor an include selector matched is kept whatever the
\* exclude list says.
should_process_IncludeWins(monitor, include_selectors, exclude_selectors) ==
    IF ~IsNull(include_selectors) /\ include_selectors.count > 0
    THEN MatchesAny(include_selectors, monitor)
    ELSE ~(~IsNull(exclude_selectors) /\ exclude_selectors.count > 0
             /\ MatchesAny(exclude_selectors, monitor))

should_process(monitor, include_selectors, exclude_selectors) ==
    LET included ==
            IF ~IsNull(include_selectors) /\ include_selectors.count > 0
            THEN MatchesAny(include_selectors, monitor)
            ELSE TRUE
    IN  IF ~IsNull(exclude_selectors) /\ exclude_selectors.count > 0
           /\ MatchesAny(exclude_selectors, monitor)
        THEN FALSE
        ELSE included

\* Variant: a filtered-out monitor is counted as a success.
RotateStep_CountNoOps(acc, monitors, i, command, include_selectors, exclude_selectors, dry_run, rd, wr) ==
    LET monitor == monitors.monitors[i]
    IN  IF should_process(monitor, include_selectors, exclude_selectors)
        THEN LET r == rotate_monitor(monitor, command, dry_run, acc.disp, rd[i], wr[i])
             IN  [success_count |-> acc.success_count
                                       + (IF r.result.success THEN 1 ELSE 0),
                  failure_count |-> acc.failure_count
                                       + (IF r.result.success THEN 0 ELSE 1),
                  results |-> Append(acc.results, r.result),
                  disp |-> r.disp,
                  writes |-> acc.writes \o r.writes,
                  reads |-> acc.reads \o r.reads,
                  calls |-> Append(acc.calls, monitor.id)]
        ELSE [acc EXCEPT !.success_count = @ + 1,
                         !.results = Append(@,
                  [success |-> TRUE, error_code |-> DISP_CHANGE_SUCCESSFUL,
                   old_orientation |-> monitor.orientation,
                   new_orientation |-> monitor.orientation])]

\* The loop body for monitor i, applied to the state acc of the loop.
RotateStep(acc, monitors, i, command, include_selectors, exclude_selectors, dry_run, rd, wr) ==
    LET monitor == monitors.monitors[i]
    IN  IF should_process(monitor, include_selectors, exclude_selectors)
        THEN LET r == rotate_monitor(monitor, command, dry_run, acc.disp, rd[i], wr[i])
             IN  [success_count |-> acc.success_count
                                       + (IF r.result.success THEN 1 ELSE 0),
                  failure_count |-> acc.failure_count
                                       + (IF r.result.success THEN 0 ELSE 1),
                  results |-> Append(acc.results, r.result),
                  disp |-> r.disp,
                  writes |-> acc.writes \o r.writes,
                  reads |-> acc.reads \o r.reads,
                  calls |-> Append(acc.calls, monitor.id)]
        ELSE [acc EXCEPT !.results = Append(@,
                  [success |-> TRUE, error_code |-> DISP_CHANGE_SUCCESSFUL,
                   old_orientation |-> monitor.orientation,
                   new_orientation |-> monitor.orientation])]

\* Variant: the loop ends at the first monitor that fails.
RECURSIVE RotateLoop_StopOnFailure(_, _, _, _, _, _, _, _, _)
RotateLoop_StopOnFailure(acc, monitors, i, command, include_selectors, exclude_selectors, dry_run, rd, wr) ==
    IF i > monitors.count \/ acc.failure_count > 0 THEN acc
    ELSE RotateLoop_StopOnFailure(RotateStep(acc, monitors, i, command, include_selectors,
                                             exclude_selectors, dry_run, rd, wr),
                                  monitors, i + 1, command, include_selectors,
                                  exclude_selectors, dry_run, rd, wr)

RECURSIVE RotateLoop(_, _, _, _, _, _, _, _, _)
RotateLoop(acc, monitors, i, command, include_selectors, exclude_selectors, dry_run, rd, wr) ==
    IF i > monitors.count THEN acc
    ELSE RotateLoop(RotateStep(acc, monitors, i, command, include_selectors,
                               exclude_selectors, dry_run, rd, wr),
                    monitors, i + 1, command, include_selectors,
                    exclude_selectors, dry_run, rd, wr)

\* The value is the BatchRotationResult (success_count, failure_count,
\* results) together with the display state afterwards, the reader and
\* writer calls and the ids of the monitors handed to rotate_monitor.
rotate_monitors_filtered(monitors, command, include_selectors, exclude_selectors, dry_run, disp, rd, wr) ==
    LET empty == [success_count |-> 0, failure_count |-> 0, results |-> << >>,
                  disp |-> disp, writes |-> << >>, reads |-> << >>, calls |-> << >>]
    IN  IF IsNull(monitors) \/ monitors.count = 0 THEN empty
        ELSE RotateLoop(empty, monitors, 1, command, include_selectors,
                        exclude_selectors, dry_run, rd, wr)

(***************************************************************************)
(* rotate.c: rollback.                                                     *)
(***************************************************************************)
\* Variant: the snapshot records the inventory's cached mode.
RECURSIVE SnapshotLoop_Cached(_, _, _, _)
SnapshotLoop_Cached(monitors, i, disp, rd) ==
    IF i > monitors.count THEN << >>
    ELSE LET monitor == monitors.monitors[i]
         IN  (IF rd[i]
              THEN <<[device_path |-> monitor.device_path,
                      original_orientation |-> monitor.orientation,
                      original_width |-> monitor.width,
                      original_height |-> monitor.height]>>
              ELSE << >>)
             \o SnapshotLoop_Cached(monitors, i + 1, disp, rd)

RECURSIVE SnapshotLoop(_, _, _, _)
SnapshotLoop(monitors, i, disp, rd) ==
    IF i > monitors.count THEN << >>
    ELSE LET monitor == monitors.monitors[i]
             devmode == CurrentSettings(disp, monitor.device_path)
         IN  (IF rd[i]
              THEN <<[device_path |-> monitor.device_path,
                      original_orientation |-> devmode.dmDisplayOrientation,
                      original_width |-> devmode.dmPelsWidth,
                      original_height |-> devmode.dmPelsHeight]>>
              ELSE << >>)
             \o SnapshotLoop(monitors, i + 1, disp, rd)

\* The reader calls of create_rollback_state: one per monitor, in order.
SnapshotReads(monitors, rd) ==
    IF IsNull(monitors) THEN << >>
    ELSE [i \in 1..monitors.count |->
             ReadCall(monitors.monitors[i].device_path, rd[i], "snapshot")]

create_rollback_state(monitors, disp, rd) ==
    IF IsNull(monitors) \/ monitors.count = 0 THEN NullPtr
    ELSE LET infos == SnapshotLoop(monitors, 1, disp, rd)
         IN  IF Len(infos) = 0 THEN NullPtr
             ELSE [infos |-> infos, count |-> Len(infos)]

\* Variant: the restore sets the orientation field only.
RollbackStep_OrientationOnly(acc, rollback_state, i, dry_run, rd, wr) ==
    LET info == rollback_state.infos[i]
        rollback_devmode ==
            [dmDisplayOrientation |-> info.original_orientation,
             dmPelsWidth |-> info.original_width,
             dmPelsHeight |-> info.original_height,
             dmFields |-> {DM_DISPLAYORIENTATION}]
        reads == Append(acc.reads, ReadCall(info.device_path, rd[i], "rollback"))
    IN  IF ~rd[i] THEN [acc EXCEPT !.all_successful = FALSE, !.reads = reads]
        ELSE IF dry_run THEN [acc EXCEPT !.reads = reads]
        ELSE [all_successful |-> acc.all_successful
                                     /\ wr[i] = DISP_CHANGE_SUCCESSFUL,
              reads |-> reads,
              disp |-> ApplySettings(acc.disp, info.device_path, rollback_devmode, wr[i]),
              writes |-> Append(acc.writes,
                            WriteCall(info.device_path, rollback_devmode, wr[i], "rollback"))]

\* Variant: an entry whose device already shows the saved mode is not
\* written.
RollbackStep_SkipUnchanged(acc, rollback_state, i, dry_run, rd, wr) ==
    LET info == rollback_state.infos[i]
        devmode == CurrentSettings(acc.disp, info.device_path)
        rollback_devmode ==
            [dmDisplayOrientation |-> info.original_orientation,
             dmPelsWidth |-> info.original_width,
             dmPelsHeight |-> info.original_height,
             dmFields |-> {DM_DISPLAYORIENTATION, DM_PELSWIDTH, DM_PELSHEIGHT}]
        reads == Append(acc.reads, ReadCall(info.device_path, rd[i], "rollback"))
    IN  IF ~rd[i] THEN [acc EXCEPT !.all_successful = FALSE, !.reads = reads]
        ELSE IF dry_run \/ (/\ devmode.dmDisplayOrientation = info.original_orientation
                            /\ devmode.dmPelsWidth = info.original_width
                            /\ devmode.dmPelsHeight = info.original_height)
        THEN [acc EXCEPT !.reads = reads]
        ELSE [all_successful |-> acc.all_successful
                                     /\ wr[i] = DISP_CHANGE_SUCCESSFUL,
              reads |-> reads,
              disp |-> ApplySettings(acc.disp, info.device_path, rollback_devmode, wr[i]),
              writes |-> Append(acc.writes,
                            WriteCall(info.device_path, rollback_devmode, wr[i], "rollback"))]

\* The loop body for snapshot entry i.
RollbackStep(acc, rollback_state, i, dry_run, rd, wr) ==
    LET info == rollback_state.infos[i]
        rollback_devmode ==
            [dmDisplayOrientation |-> info.original_orientation,
             dmPelsWidth |-> info.original_width,
             dmPelsHeight |-> info.original_height,
             dmFields |-> {DM_DISPLAYORIENTATION, DM_PELSWIDTH, DM_PELSHEIGHT}]
        reads == Append(acc.reads, ReadCall(info.device_path, rd[i], "rollback"))
    IN  IF ~rd[i] THEN [acc EXCEPT !.all_successful = FALSE, !.reads = reads]
        ELSE IF dry_run THEN [acc EXCEPT !.reads = reads]
        ELSE [all_successful |-> acc.all_successful
                                     /\ wr[i] = DISP_CHANGE_SUCCESSFUL,
              reads |-> reads,
              disp |-> ApplySettings(acc.disp, info.device_path, rollback_devmode, wr[i]),
              writes |-> Append(acc.writes,
                            WriteCall(info.device_path, rollback_devmode, wr[i], "rollback"))]

\* Variant: the loop ends at the first entry that is not restored.
RECURSIVE RollbackLoop_StopOnFailure(_, _, _, _, _, _)
RollbackLoop_StopOnFailure(acc, rollback_state, i, dry_run, rd, wr) ==
    IF i > rollback_state.count \/ ~acc.all_successful THEN acc
    ELSE RollbackLoop_StopOnFailure(
             RollbackStep(acc, rollback_state, i, dry_run, rd, wr),
             rollback_state, i + 1, dry_run, rd, wr)

RECURSIVE RollbackLoop(_, _, _, _, _, _)
RollbackLoop(acc, rollback_state, i, dry_run, rd, wr) ==
    IF i > rollback_state.count THEN acc
    ELSE RollbackLoop(RollbackStep(acc, rollback_state, i, dry_run, rd, wr),
                      rollback_state, i + 1, dry_run, rd, wr)

\* The value is the return value (all_successful), the display state
\* afterwards and the reader and writer calls made.
rollback_monitors(rollback_state, dry_run, disp, rd, wr) ==
    LET start == [all_successful |-> TRUE, disp |-> disp, writes |-> << >>,
                  reads |-> << >>]
    IN  IF IsNull(rollback_state) \/ rollback_state.count = 0 THEN start
        ELSE RollbackLoop(start, rollback_state, 1, dry_run, rd, wr)

(***************************************************************************)
(* enum.c: the monitor inventory.  The first `attached` devices are        *)
(* active; a device whose settings cannot be read is left out, and the     *)
(* ids M1, M2, ... number the monitors that are kept.                      *)
(***************************************************************************)
RECURSIVE EnumLoop(_, _, _, _, _)
EnumLoop(acc, device_index, attached, disp, rd) ==
    IF device_index > attached THEN acc
    ELSE IF ~rd[device_index] THEN EnumLoop(acc, device_index + 1, attached, disp, rd)
    ELSE LET devmode == CurrentSettings(disp, DeviceName(device_index))
             monitor == [id |-> "M" \o IntToStr(Len(acc) + 1),
                         device_name |-> DeviceString(device_index),
                         device_path |-> DeviceName(device_index),
                         width |-> devmode.dmPelsWidth,
                         height |-> devmode.dmPelsHeight,
                         orientation |-> devmode.dmDisplayOrientation]
         IN  EnumLoop(Append(acc, monitor), device_index + 1, attached, disp, rd)

enumerate_monitors(attached, disp, rd) ==
    LET list == EnumLoop(<< >>, 1, attached, disp, rd)
    IN  [monitors |-> list, count |-> Len(list)]

(***************************************************************************)
(* config.c: the configuration file, held in parsed form.                  *)
(***************************************************************************)
ConfigMissing == [state |-> "missing"]
ConfigMalformed == [state |-> "malformed"]
ConfigOk(default_selector, last_action) ==
    [state |-> "ok", default_selector |-> default_selector, last_action |-> last_action]

load_config(file) ==
    CASE file.state = "missing" -> [default_selector |-> << >>, last_action |-> << >>]
      [] file.state = "malformed" -> NullPtr
      [] OTHER -> [default_selector |-> file.default_selector,
                   last_action |-> file.last_action]

\* The file after save_config(config), which succeeds iff saveOk.
save_config(file, config, saveOk) ==
    IF IsNull(config) \/ ~saveOk THEN file
    ELSE ConfigOk(config.default_selector, config.last_action)

(***************************************************************************)
(* cli.c: argument parsing.  argv[1] is the program name, so the C index   *)
(* i addresses argv[i + 1] and argc is Len(argv).                          *)
(***************************************************************************)
InitialGlobals ==
    [g_dry_run |-> FALSE, g_no_confirm |-> FALSE, g_force_rdp |-> FALSE,
     g_revert_seconds |-> 0, g_verbose |-> FALSE]

InitialArgs ==
    [command |-> << >>, include_selectors |-> NullPtr, exclude_selectors |-> NullPtr,
     only_selector |-> NullPtr, save_default |-> << >>, clear_default |-> FALSE,
     version |-> FALSE, help |-> FALSE]

\* The loop over the global flags: the value is the index of the first
\* argument that is not a global flag, with the globals and args so far.
RECURSIVE ParseGlobalFlags(_, _, _, _)
ParseGlobalFlags(argv, i, glob, args) ==
    IF i >= Len(argv) THEN [i |-> i, glob |-> glob, args |-> args]
    ELSE LET a == argv[i + 1]
         IN  CASE a = "--dry-run" ->
                    ParseGlobalFlags(argv, i + 1, [glob EXCEPT !.g_dry_run = TRUE], args)
               [] a = "--verbose" ->
                    ParseGlobalFlags(argv, i + 1, [glob EXCEPT !.g_verbose = TRUE], args)
               [] a = "--no-confirm" ->
                    ParseGlobalFlags(argv, i + 1, [glob EXCEPT !.g_no_confirm = TRUE], args)
               [] a = "--force-rdp" ->
                    ParseGlobalFlags(argv, i + 1, [glob EXCEPT !.g_force_rdp = TRUE], args)
               [] a = "--version" ->
                    ParseGlobalFlags(argv, i + 1, glob, [args EXCEPT !.version = TRUE])
               [] a = "--help" \/ a = "-h" ->
                    ParseGlobalFlags(argv, i + 1, glob, [args EXCEPT !.help = TRUE])
               [] a = "--revert-seconds" /\ i + 1 < Len(argv) ->
                    ParseGlobalFlags(argv, i + 2,
                        [glob EXCEPT !.g_revert_seconds = atoi(argv[i + 2])], args)
               [] OTHER -> [i |-> i, glob |-> glob, args |-> args]

\* The loop over the command-specific arguments: the CliArgs, or NullPtr
\* on an unknown argument.
RECURSIVE ParseCommandArgs(_, _, _)
ParseCommandArgs(argv, i, args) ==
    IF i >= Len(argv) THEN args
    ELSE LET a == argv[i + 1]
             more == i + 1 < Len(argv)
         IN  CASE a = "--only" /\ more ->
                    ParseCommandArgs(argv, i + 2,
                        [args EXCEPT !.only_selector = parse_selector(argv[i + 2])])
               [] a = "--include" /\ more ->
                    ParseCommandArgs(argv, i + 2,
                        [args EXCEPT !.include_selectors = parse_selector_list(argv[i + 2])])
               [] a = "--exclude" /\ more ->
                    ParseCommandArgs(argv, i + 2,
                        [args EXCEPT !.exclude_selectors = parse_selector_list(argv[i + 2])])
               [] a = "--save-default" /\ more ->
                    ParseCommandArgs(argv, i + 2,
                        [args EXCEPT !.save_default = <<argv[i + 2]>>])
               [] a = "--clear-default" ->
                    ParseCommandArgs(argv, i + 1, [args EXCEPT !.clear_default = TRUE])
               [] OTHER -> NullPtr

\* The value is the CliArgs (or NullPtr) and the globals parsing has set.
parse_args(argv, glob) ==
    LET p == ParseGlobalFlags(argv, 1, glob, InitialArgs)
    IN  IF p.i < Len(argv)
        THEN [glob |-> p.glob,
              args |-> ParseCommandArgs(argv, p.i + 1,
                           [p.args EXCEPT !.command = <<argv[p.i + 1]>>])]
        ELSE [glob |-> p.glob, args |-> p.args]

\* Priority: only > include > default > all
get_applicable_selectors(args, config) ==
    IF ~IsNull(args.only_selector)
    THEN [selectors |-> <<args.only_selector>>, count |-> 1]
    ELSE IF ~IsNull(args.include_selectors)
    THEN parse_selector_list(args.include_selectors.selectors[1].value)
    ELSE IF ~IsNull(config) /\ config.default_selector # << >>
    THEN parse_selector_list(config.default_selector[1])
    ELSE parse_selector_list("*")

(***************************************************************************)
(* The heap strings that hold selector values.  A string is named by the   *)
(* pointer that first owns it: the site of its allocation and its index    *)
(* there.  parse_args allocates only_selector->value and the values of the *)
(* include and exclude lists; parse_selector_list in                       *)
(* get_applicable_selectors allocates the values of a new list.            *)
(***************************************************************************)
ValuePtrs(site, list) ==
    IF IsNull(list) THEN << >>
    ELSE [j \in 1..list.count |-> [site |-> site, index |-> j]]

\* The value pointers of the list get_applicable_selectors returns: with
\* --only, selectors[0] = *args->only_selector copies the pointer.
applicable_value_ptrs(args, list) ==
    IF IsNull(list) THEN << >>
    ELSE IF ~IsNull(args.only_selector)
    THEN <<[site |-> "only_selector", index |-> 1]>>
    ELSE ValuePtrs("applicable_selectors", list)

\* free_selector_list(applicable_selectors) in the cleanup of
\* handle_rotation_command: free(list->selectors[i].value) for each i.
free_applicable_selectors(args, list) == applicable_value_ptrs(args, list)

\* free_cli_args: the include list, the exclude list, the --only selector.
free_cli_args(args) ==
    ValuePtrs("include_selectors", args.include_selectors)
        \o ValuePtrs("exclude_selectors", args.exclude_selectors)
        \o (IF IsNull(args.only_selector) THEN << >>
            ELSE <<[site |-> "only_selector", index |-> 1]>>)

\* Variant: only the lower-case key confirms.
IsConfirmKey_CaseSensitive(ch) == ch = "y"

\* tolower(ch) == 'y' on the key read by _getch
IsConfirmKey(ch) == tolower(ch) = "y"

\* Variant: "no matching monitors" is tested before "API failure".
rotation_exit_code_NoMatchFirst(result) ==
    IF result.success_count = 0 THEN 2
    ELSE IF result.failure_count > 0 THEN 3
    ELSE 0

\* The exit code of handle_rotation_command after the batch.
rotation_exit_code(result) ==
    IF result.failure_count > 0 THEN 3
    ELSE IF result.success_count = 0 THEN 2
    ELSE 0

(***************************************************************************)
(* The machine the command runs on, and the command lines tried.           *)
(***************************************************************************)
\* The mode of a display at orientation o (native mode 1920x1080).
ModeAt(o) ==
    IF o = DMDO_90 \/ o = DMDO_270
    THEN [orientation |-> o, width |-> 1080, height |-> 1920]
    ELSE [orientation |-> o, width |-> 1920, height |-> 1080]

GlobalFlagArgs ==
    {<< >>, <<"--dry-run">>, <<"--no-confirm">>,
     <<"--no-confirm", "--revert-seconds", "1">>}
        \cup {<<"--revert-seconds", IntToStr(n)>> : n \in 1..MaxRevertSeconds}

SelectorArgs ==
    {<< >>,
     <<"--only", "M1">>,
     <<"--only", "name:\"dell\"">>,
     <<"--include", "M1,M3">>,
     <<"--exclude", "M3">>,
     <<"--only", "M2", "--include", "M1">>,
     <<"--include", "M2", "--exclude", "name:\"lg\"">>,
     <<"--only", "M2", "--exclude", "name:\"lg">>,
     <<"--only", "name:\"dell">>,
     <<"--include", "M1,name:\"dell">>}

CommandLines ==
    {<<"mos-def">> \o f \o <<"toggle", "--only", "M1">> : f \in GlobalFlagArgs}
        \cup {<<"mos-def", c, "--only", "M1">> : c \in RotationCommands}
        \cup {<<"mos-def", "toggle">> \o a : a \in SelectorArgs}
        \cup {<<"mos-def", "--revert-seconds", "1", "toggle">> \o a :
                 a \in {<<"--exclude", "M3">>, <<"--only", "name:\"dell\"">>}}
        \cup {<<"mos-def">>, <<"mos-def", "--help">>, <<"mos-def", "--version">>,
              <<"mos-def", "list">>, <<"mos-def", "rotate">>,
              <<"mos-def", "toggle", "--dry-run">>,
              <<"mos-def", "toggle", "--save-default", "M2">>,
              <<"mos-def", "toggle", "--clear-default">>}

ConfigFiles == {ConfigMissing, ConfigMalformed, ConfigOk(<<"M1,M3">>, << >>)}

\* The command lines tried with every configuration file; the others run
\* with no configuration file.
UsesConfig(line) ==
    \A k \in 1..Len(line) : line[k] \notin {"--only", "--revert-seconds", "--no-confirm"}

Setups ==
    {<<line, file>> \in CommandLines \X ConfigFiles :
        file = ConfigMissing \/ UsesConfig(line)}

Keys == {"y", "Y", "n"}
NoKey == ""

\* What the display layer answers to the reads and writes of one loop over
\* n items, with at most `budget` of them failing.
Failures(rd, wr) ==
    Cardinality({i \in DOMAIN rd : ~rd[i]})
        + Cardinality({i \in DOMAIN wr : wr[i] # DISP_CHANGE_SUCCESSFUL})

ReadAnswers(n, budget) ==
    {rd \in [1..n -> BOOLEAN] : Cardinality({i \in 1..n : ~rd[i]}) <= budget}

WriteAnswers(n, budget) ==
    {wr \in [1..n -> WriterCodes] :
        Cardinality({i \in 1..n : wr[i] # DISP_CHANGE_SUCCESSFUL}) <= budget}

VARIABLES
    argv,            \* the command line
    rdp,             \* is_rdp_session()
    attached,        \* number of active display devices
    config_file,     \* %APPDATA%\MOS-DEF\config.json
    display,         \* current mode of each display device
    faults,          \* failures and external changes still allowed
    pc,              \* position of the command
    glob,            \* g_dry_run, g_no_confirm, g_force_rdp, g_revert_seconds, g_verbose
    args,            \* CliArgs
    command,         \* RotationCommand
    config,          \* MosDefConfig of handle_rotation_command
    monitors,        \* MonitorList
    applicable_selectors,
    rollback_state,
    result,          \* BatchRotationResult
    countdown,       \* i of start_revert_timer
    exit_code,
    reads,           \* log of the display-reader calls of rotate.c
    writes,          \* log of the display-writer calls
    rotated,         \* ids of the monitors handed to rotate_monitor
    restores,        \* log of the rollback_monitors calls
    keys,            \* keys read in the confirmation window
    decision,        \* "None", "Kept", "Declined" (prompt) or "Expired" (timer)
    snapshot_at,     \* the display state when the snapshot was taken
    batch_at,        \* the display state when the batch began
    frees            \* the selector value strings passed to free(), in call order

vars == <<argv, rdp, attached, config_file, display, faults, pc, glob,
          args, command, config, monitors, applicable_selectors, rollback_state,
          result, countdown, exit_code, reads, writes, rotated, restores, keys, decision,
          snapshot_at, batch_at, frees>>

env == <<argv, rdp, attached>>
progvars == <<glob, args, command, config, monitors, applicable_selectors,
              rollback_state, result, countdown>>
ghost == <<reads, writes, rotated, restores, keys, decision, snapshot_at, batch_at>>

NotTaken == [taken |-> FALSE]

Cold ==
    /\ display = [d \in Devices |-> ModeAt(DMDO_DEFAULT)]
    /\ faults = MaxFaults
    /\ glob = InitialGlobals
    /\ args = NullPtr
    /\ command = ROTATION_TOGGLE
    /\ config = NullPtr
    /\ monitors = NullPtr
    /\ applicable_selectors = NullPtr
    /\ rollback_state = NullPtr
    /\ result = [success_count |-> 0, failure_count |-> 0, results |-> << >>]
    /\ countdown = 0
    /\ exit_code = 0 - 1
    /\ reads = << >>
    /\ writes = << >>
    /\ rotated = << >>
    /\ restores = << >>
    /\ keys = << >>
    /\ decision = "None"
    /\ snapshot_at = NotTaken
    /\ batch_at = NotTaken
    /\ frees = << >>

Init ==
    /\ \E setup \in Setups :
          /\ argv = setup[1]
          /\ config_file = setup[2]
    /\ rdp \in BOOLEAN
    /\ attached \in 1..MaxMonitors
    /\ pc = "main"
    /\ Cold

Exit(code) ==
    /\ pc' = "done"
    /\ exit_code' = code

(***************************************************************************)
(* cli.c: main, up to the dispatch of the command.                         *)
(***************************************************************************)
\* The globals after main has "set" them.
main_globals(g) ==
    [g EXCEPT !.g_verbose = TRUE, !.g_dry_run = FALSE,
              !.g_no_confirm = FALSE, !.g_force_rdp = FALSE]

Main ==
    /\ pc = "main"
    /\ \E p \in {parse_args(argv, glob)} : \E g \in {main_globals(p.glob)} :
           /\ glob' = (IF IsNull(p.args) THEN p.glob ELSE g)
           /\ args' = p.args
           /\ IF IsNull(p.args) THEN
                  /\ Exit(1)
                  /\ UNCHANGED <<command, config_file>>
              ELSE IF rdp /\ ~g.g_force_rdp THEN
                  /\ Exit(2)
                  /\ UNCHANGED <<command, config_file>>
              ELSE IF p.args.version \/ p.args.help \/ Len(argv) = 1 THEN
                  /\ Exit(0)
                  /\ UNCHANGED <<command, config_file>>
              ELSE IF p.args.save_default # << >> THEN
                  \* handle_save_default
                  \E saveOk \in BOOLEAN :
                      LET loaded == load_config(config_file)
                          cfg == IF IsNull(loaded)
                                 THEN [default_selector |-> << >>, last_action |-> << >>]
                                 ELSE loaded
                      IN  /\ config_file' = save_config(config_file,
                                 [cfg EXCEPT !.default_selector = p.args.save_default],
                                 saveOk)
                          /\ Exit(IF saveOk THEN 0 ELSE 3)
                          /\ UNCHANGED command
              ELSE IF p.args.clear_default THEN
                  \* handle_clear_default
                  \E saveOk \in BOOLEAN :
                      LET loaded == load_config(config_file)
                      IN  IF IsNull(loaded) THEN
                              /\ Exit(0)
                              /\ UNCHANGED <<command, config_file>>
                          ELSE
                              /\ config_file' = save_config(config_file,
                                     [loaded EXCEPT !.default_selector = << >>], saveOk)
                              /\ Exit(IF saveOk THEN 0 ELSE 3)
                              /\ UNCHANGED command
              ELSE IF p.args.command = <<"list">> THEN
                  \* handle_list_command
                  /\ Exit(0)
                  /\ UNCHANGED <<command, config_file>>
              ELSE IF p.args.command[1] \in RotationCommands THEN
                  /\ command' = p.args.command[1]
                  /\ pc' = "rotation"
                  /\ UNCHANGED <<exit_code, config_file>>
              ELSE
                  /\ Exit(2)
                  /\ UNCHANGED <<command, config_file>>
    /\ frees' = (IF pc' = "done" /\ ~IsNull(args')
                 THEN frees \o free_cli_args(args') ELSE frees)
    /\ UNCHANGED <<env, display, faults, config, monitors,
                   applicable_selectors, rollback_state, result, countdown, ghost>>

(***************************************************************************)
(* cli.c: handle_rotation_command.                                         *)
(***************************************************************************)
\* Load the configuration, enumerate the monitors, choose the selectors.
Enumerate ==
    /\ pc = "rotation"
    /\ \E rd \in ReadAnswers(attached, faults) :
          \E cfg \in {load_config(config_file)} :
          \E list \in {enumerate_monitors(attached, display, rd)} :
          \E sels \in {get_applicable_selectors(args, cfg)} :
              /\ faults' = faults - Failures(rd, << >>)
              /\ config' = cfg
              /\ monitors' = list
              /\ IF list.count = 0 THEN
                     /\ Exit(3)
                     /\ UNCHANGED applicable_selectors
                 ELSE IF IsNull(sels) THEN
                     /\ Exit(2)
                     /\ applicable_selectors' = sels
                 ELSE
                     /\ applicable_selectors' = sels
                     /\ pc' = "snapshot"
                     /\ UNCHANGED exit_code
    /\ frees' = (IF pc' = "done" THEN frees \o free_cli_args(args) ELSE frees)
    /\ UNCHANGED <<env, config_file, display, glob, args, command,
                   rollback_state, result, countdown, ghost>>

\* Variant: the snapshot covers only the monitors the batch will select.
Snapshot_SelectedOnly ==
    /\ pc = "snapshot"
    /\ IF glob.g_revert_seconds > 0
       THEN \E sel \in {SelectSeq(monitors.monitors,
                            LAMBDA m : should_process(m,
                                IF applicable_selectors.count > 0
                                THEN applicable_selectors ELSE NullPtr,
                                args.exclude_selectors))} :
            \E selected \in {[monitors |-> sel, count |-> Len(sel)]} :
            \E rd \in ReadAnswers(selected.count, faults) :
               /\ rollback_state' = create_rollback_state(selected, display, rd)
               /\ reads' = reads \o SnapshotReads(selected, rd)
               /\ faults' = faults - Failures(rd, << >>)
               /\ snapshot_at' = [taken |-> TRUE, display |-> display,
                                  nwrites |-> Len(writes)]
       ELSE UNCHANGED <<rollback_state, reads, faults, snapshot_at>>
    /\ pc' = "rotate"
    /\ UNCHANGED <<env, config_file, display, glob, args, command, config,
                   monitors, applicable_selectors, result, countdown, exit_code,
                   writes, rotated, restores, keys, decision, batch_at, frees>>

\* Create rollback state if revert is enabled.
Snapshot ==
    /\ pc = "snapshot"
    /\ IF glob.g_revert_seconds > 0
       THEN \E rd \in ReadAnswers(monitors.count, faults) :
               /\ rollback_state' = create_rollback_state(monitors, display, rd)
               /\ reads' = reads \o SnapshotReads(monitors, rd)
               /\ faults' = faults - Failures(rd, << >>)
               /\ snapshot_at' = [taken |-> TRUE, display |-> display,
                                  nwrites |-> Len(writes)]
       ELSE UNCHANGED <<rollback_state, reads, faults, snapshot_at>>
    /\ pc' = "rotate"
    /\ UNCHANGED <<env, config_file, display, glob, args, command, config,
                   monitors, applicable_selectors, result, countdown, exit_code,
                   writes, rotated, restores, keys, decision, batch_at, frees>>

\* Variant: the countdown starts whether or not there is a snapshot.
Rotate_TimerWithoutSnapshot ==
    /\ pc = "rotate"
    /\ \E rd \in ReadAnswers(monitors.count, faults) :
       \E wr \in WriteAnswers(monitors.count, faults - Failures(rd, << >>)) :
          \E r \in {rotate_monitors_filtered(monitors, command,
                       IF applicable_selectors.count > 0
                       THEN applicable_selectors ELSE NullPtr,
                       args.exclude_selectors, glob.g_dry_run, display, rd, wr)} :
              /\ result' = [success_count |-> r.success_count,
                            failure_count |-> r.failure_count,
                            results |-> r.results]
              /\ display' = r.disp
              /\ reads' = reads \o r.reads
              /\ writes' = writes \o r.writes
              /\ rotated' = r.calls
              /\ faults' = faults - r.failure_count
              /\ batch_at' = [taken |-> TRUE, display |-> display]
              /\ IF ~glob.g_dry_run /\ ~glob.g_no_confirm /\ r.success_count > 0
                 THEN IF glob.g_revert_seconds > 0
                      THEN /\ pc' = "timer"
                           /\ countdown' = glob.g_revert_seconds
                      ELSE /\ pc' = "prompt"
                           /\ UNCHANGED countdown
                 ELSE /\ pc' = "finish"
                      /\ UNCHANGED countdown
    /\ UNCHANGED <<env, config_file, glob, args, command, config, monitors,
                   applicable_selectors, rollback_state, exit_code, restores, keys,
                   decision, snapshot_at, frees>>

\* Perform the rotation, then enter the confirmation window if there is one.
Rotate ==
    /\ pc = "rotate"
    /\ \E rd \in ReadAnswers(monitors.count, faults) :
       \E wr \in WriteAnswers(monitors.count, faults - Failures(rd, << >>)) :
          \E r \in {rotate_monitors_filtered(monitors, command,
                       IF applicable_selectors.count > 0
                       THEN applicable_selectors ELSE NullPtr,
                       args.exclude_selectors, glob.g_dry_run, display, rd, wr)} :
              /\ result' = [success_count |-> r.success_count,
                            failure_count |-> r.failure_count,
                            results |-> r.results]
              /\ display' = r.disp
              /\ reads' = reads \o r.reads
              /\ writes' = writes \o r.writes
              /\ rotated' = r.calls
              /\ faults' = faults - r.failure_count
              /\ batch_at' = [taken |-> TRUE, display |-> display]
              /\ IF ~glob.g_dry_run /\ ~glob.g_no_confirm /\ r.success_count > 0
                 THEN IF glob.g_revert_seconds > 0
                      THEN IF IsNull(rollback_state)
                           THEN /\ pc' = "finish"
                                /\ UNCHANGED countdown
                           ELSE /\ pc' = "timer"
                                /\ countdown' = glob.g_revert_seconds
                      ELSE /\ pc' = "prompt"
                           /\ UNCHANGED countdown
                 ELSE /\ pc' = "finish"
                      /\ UNCHANGED countdown
    /\ UNCHANGED <<env, config_file, glob, args, command, config, monitors,
                   applicable_selectors, rollback_state, exit_code, restores, keys,
                   decision, snapshot_at, frees>>

\* Variant: the snapshot is restored twice in a row.
Restore_Twice(dry_run, rd, wr) ==
    \E r1 \in {rollback_monitors(rollback_state, dry_run, display, rd, wr)} :
    \E r2 \in {rollback_monitors(rollback_state, dry_run, r1.disp, rd, wr)} :
        /\ display' = r2.disp
        /\ reads' = reads \o r1.reads \o r2.reads
        /\ writes' = writes \o r1.writes \o r2.writes
        /\ restores' = restores \o
               <<[rollback_state |-> rollback_state, dry_run |-> dry_run,
                  all_successful |-> r1.all_successful],
                 [rollback_state |-> rollback_state, dry_run |-> dry_run,
                  all_successful |-> r2.all_successful]>>
        /\ faults' = faults - Failures(rd, wr)

\* The value of a rollback_monitors call as the variables it changes.
Restore(dry_run, rd, wr) ==
    \E r \in {rollback_monitors(rollback_state, dry_run, display, rd, wr)} :
        /\ display' = r.disp
        /\ reads' = reads \o r.reads
        /\ writes' = writes \o r.writes
        /\ restores' = Append(restores,
               [rollback_state |-> rollback_state, dry_run |-> dry_run,
                all_successful |-> r.all_successful])
        /\ faults' = faults - Failures(rd, wr)

\* prompt_confirmation: one key press; anything but y / Y declines.
Prompt ==
    /\ pc = "prompt"
    /\ \E ch \in Keys :
          /\ keys' = Append(keys, ch)
          /\ IF IsConfirmKey(ch)
             THEN /\ decision' = "Kept"
                  /\ UNCHANGED <<display, reads, writes, restores, faults>>
             ELSE /\ decision' = "Declined"
                  /\ IF ~IsNull(rollback_state)
                     THEN \E rd \in ReadAnswers(rollback_state.count, faults) :
                          \E wr \in WriteAnswers(rollback_state.count,
                                                 faults - Failures(rd, << >>)) :
                              Restore(FALSE, rd, wr)
                     ELSE UNCHANGED <<display, reads, writes, restores, faults>>
    /\ pc' = "finish"
    /\ UNCHANGED <<env, config_file, progvars, exit_code, rotated,
                   snapshot_at, batch_at, frees>>

\* Variant: a key that does not confirm restarts the current second.
TimerTick_KeyRestartsTick ==
    /\ pc = "timer"
    /\ countdown > 0
    /\ \E ch \in Keys \cup {NoKey} :
          /\ keys' = (IF ch = NoKey THEN keys ELSE Append(keys, ch))
          /\ IF ch # NoKey /\ IsConfirmKey(ch)
             THEN /\ decision' = "Kept"
                  /\ pc' = "finish"
                  /\ UNCHANGED countdown
             ELSE /\ countdown' = (IF ch = NoKey THEN countdown - 1 ELSE countdown)
                  /\ UNCHANGED <<decision, pc>>
    /\ UNCHANGED <<env, config_file, display, faults, glob, args, command,
                   config, monitors, applicable_selectors, rollback_state, result,
                   exit_code, reads, writes, rotated, restores, snapshot_at, batch_at, frees>>

\* start_revert_timer: one pass of the countdown loop.  The second ends
\* with no key, or a key is read before it ends.
TimerTick ==
    /\ pc = "timer"
    /\ countdown > 0
    /\ \E ch \in Keys \cup {NoKey} :
          /\ keys' = (IF ch = NoKey THEN keys ELSE Append(keys, ch))
          /\ IF ch # NoKey /\ IsConfirmKey(ch)
             THEN /\ decision' = "Kept"
                  /\ pc' = "finish"
                  /\ UNCHANGED countdown
             ELSE /\ countdown' = countdown - 1
                  /\ UNCHANGED <<decision, pc>>
    /\ UNCHANGED <<env, config_file, display, faults, glob, args, command,
                   config, monitors, applicable_selectors, rollback_state, result,
                   exit_code, reads, writes, rotated, restores, snapshot_at, batch_at, frees>>

\* start_revert_timer: the countdown has run out.
TimerExpired ==
    /\ pc = "timer"
    /\ countdown = 0
    /\ \E rd \in ReadAnswers(rollback_state.count, faults) :
       \E wr \in WriteAnswers(rollback_state.count, faults - Failures(rd, << >>)) :
          Restore(FALSE, rd, wr)
    /\ decision' = "Expired"
    /\ pc' = "finish"
    /\ UNCHANGED <<env, config_file, progvars, exit_code, keys, rotated,
                   snapshot_at, batch_at, frees>>

\* Save the last action, clean up, return the exit code.
Finish ==
    /\ pc = "finish"
    /\ \E saveOk \in (IF faults > 0 THEN BOOLEAN ELSE {TRUE}) :
          config_file' =
              IF ~IsNull(config) /\ result.success_count > 0
              THEN save_config(config_file,
                       [config EXCEPT !.last_action = <<command>>], saveOk)
              ELSE config_file
    /\ frees' = frees \o free_applicable_selectors(args, applicable_selectors)
                      \o free_cli_args(args)
    /\ Exit(rotation_exit_code(result))
    /\ UNCHANGED <<env, display, faults, progvars, ghost>>

(***************************************************************************)
(* Another program changes the orientation of a display.                   *)
(***************************************************************************)
External ==
    /\ pc \in {"snapshot", "rotate", "timer", "api", "api_rotate", "api_rollback"}
    /\ faults > 0
    /\ \E d \in 1..attached : \E o \in Orientations :
          /\ o # display[d].orientation
          /\ display' = [display EXCEPT ![d] = ModeAt(o)]
    /\ faults' = faults - 1
    /\ UNCHANGED <<env, config_file, pc, progvars, exit_code, ghost, frees>>

Next ==
    \/ Main
    \/ Enumerate
    \/ Snapshot
    \/ Rotate
    \/ Prompt
    \/ TimerTick
    \/ TimerExpired
    \/ Finish
    \/ External

Spec == Init /\ [][Next]_vars

\* The clock advances: a pass of the countdown loop of start_revert_timer
\* ends within its second, and the code after the loop runs.
SpecLive == Spec /\ WF_vars(TimerTick) /\ WF_vars(TimerExpired)

(***************************************************************************)
(* rotate.h used as a library: a caller snapshots an inventory, rotates it *)
(* with include / exclude lists and a dry_run flag of its choice, then     *)
(* restores the snapshot.  glob.g_dry_run holds the caller's dry_run,      *)
(* applicable_selectors its include list, args.exclude_selectors its       *)
(* exclude list.                                                           *)
(***************************************************************************)
EmptyList == [selectors |-> << >>, count |-> 0]

IncludeLists ==
    {NullPtr, EmptyList}
        \cup {parse_selector_list(t) : t \in {"M1,M3", "M2", "name:\"dell\""}}

ExcludeLists ==
    {NullPtr, EmptyList}
        \cup {parse_selector_list(t) : t \in {"M3", "name:\"lg\""}}

InitApi ==
    /\ argv = << >>
    /\ rdp = FALSE
    /\ attached \in 1..MaxMonitors
    /\ config_file = ConfigMissing
    /\ pc = "api"
    /\ display = [d \in Devices |-> ModeAt(DMDO_DEFAULT)]
    /\ faults = MaxFaults
    /\ glob \in {[InitialGlobals EXCEPT !.g_dry_run = b] : b \in BOOLEAN}
    /\ args \in {[InitialArgs EXCEPT !.exclude_selectors = x] : x \in ExcludeLists}
    /\ command \in RotationCommands
    /\ config = NullPtr
    /\ monitors = enumerate_monitors(attached, display, [d \in Devices |-> TRUE])
    /\ applicable_selectors \in IncludeLists
    /\ rollback_state = NullPtr
    /\ result = [success_count |-> 0, failure_count |-> 0, results |-> << >>]
    /\ countdown = 0
    /\ exit_code = 0 - 1
    /\ reads = << >>
    /\ writes = << >>
    /\ rotated = << >>
    /\ restores = << >>
    /\ keys = << >>
    /\ decision = "None"
    /\ snapshot_at = NotTaken
    /\ batch_at = NotTaken
    /\ frees = << >>

ApiSnapshot ==
    /\ pc = "api"
    /\ \E rd \in ReadAnswers(monitors.count, faults) :
          /\ rollback_state' = create_rollback_state(monitors, display, rd)
          /\ reads' = reads \o SnapshotReads(monitors, rd)
          /\ faults' = faults - Failures(rd, << >>)
    /\ snapshot_at' = [taken |-> TRUE, display |-> display, nwrites |-> Len(writes)]
    /\ pc' = "api_rotate"
    /\ UNCHANGED <<env, config_file, display, glob, args, command, config, monitors,
                   applicable_selectors, result, countdown, exit_code, writes,
                   rotated, restores, keys, decision, batch_at, frees>>

ApiRotate ==
    /\ pc = "api_rotate"
    /\ \E rd \in ReadAnswers(monitors.count, faults) :
       \E wr \in WriteAnswers(monitors.count, faults - Failures(rd, << >>)) :
          \E r \in {rotate_monitors_filtered(monitors, command, applicable_selectors,
                       args.exclude_selectors, glob.g_dry_run, display, rd, wr)} :
              /\ result' = [success_count |-> r.success_count,
                            failure_count |-> r.failure_count,
                            results |-> r.results]
              /\ display' = r.disp
              /\ reads' = reads \o r.reads
              /\ writes' = writes \o r.writes
              /\ rotated' = r.calls
              /\ faults' = faults - r.failure_count
    /\ batch_at' = [taken |-> TRUE, display |-> display]
    /\ pc' = "api_rollback"
    /\ UNCHANGED <<env, config_file, glob, args, command, config, monitors,
                   applicable_selectors, rollback_state, countdown, exit_code,
                   restores, keys, decision, snapshot_at, frees>>

ApiRollback ==
    /\ pc = "api_rollback"
    /\ LET n == IF IsNull(rollback_state) THEN 0 ELSE rollback_state.count
       IN  \E rd \in ReadAnswers(n, faults) :
           \E wr \in WriteAnswers(n, faults - Failures(rd, << >>)) :
              Restore(glob.g_dry_run, rd, wr)
    /\ pc' = "api_done"
    /\ UNCHANGED <<env, config_file, progvars, exit_code, keys, rotated, decision,
                   snapshot_at, batch_at, frees>>

NextApi ==
    \/ ApiSnapshot
    \/ ApiRotate
    \/ ApiRollback
    \/ External

SpecApi == InitApi /\ [][NextApi]_vars

(***************************************************************************)
(* Properties.                                                             *)
(***************************************************************************)
Range(seq) == {seq[k] : k \in DOMAIN seq}

ConfirmKeys == {"y", "Y"}

\* The monitor at inventory index i matches some selector of the list.
ListMatches(list, i) ==
    \E j \in 1..list.count :
        matches_monitor(list.selectors[j], monitors.monitors[i].id,
                        monitors.monitors[i].device_path,
                        monitors.monitors[i].device_name)

Given(list) == ~IsNull(list) /\ list.count > 0

\* The batch made a successful read of the device.
BatchReadOk(device_path) ==
    \E k \in DOMAIN reads :
        reads[k] = ReadCall(device_path, TRUE, "rotate")

\* The batch called the display reader for the device.
BatchRead(device_path) ==
    \E k \in DOMAIN reads :
        reads[k].by = "rotate" /\ reads[k].device_path = device_path

\* The batch called the display writer for the device.
BatchWrote(device_path) ==
    \E k \in DOMAIN writes :
        writes[k].by = "rotate" /\ writes[k].device_path = device_path

ApiBatchDone == pc \in {"api_rollback", "api_done"}

----------------------------------------------------------------------------
\* The decision the batch takes for the monitor at inventory index i.
C1_Selected(i) ==
    /\ Given(applicable_selectors) => ListMatches(applicable_selectors, i)
    /\ ~(Given(args.exclude_selectors) /\ ListMatches(args.exclude_selectors, i))

\* C1: rotate_monitors_filtered hands a monitor to rotate_monitor iff it
\* matches some include selector (when an include list is given and
\* non-empty) and matches no exclude selector (when an exclude list is
\* given and non-empty); every other monitor gets a successful no-op
\* outcome with old = new orientation and is neither read nor written.
\* With M1, M2, M3, include {M1, M3} and exclude {M3}, only M1 is processed.
C1_IncludeThenExclude ==
    ApiBatchDone =>
        /\ Len(result.results) = monitors.count
        /\ \A i \in 1..monitors.count :
              /\ (monitors.monitors[i].id \in Range(rotated)) <=> C1_Selected(i)
              /\ ~C1_Selected(i) =>
                    /\ result.results[i].success
                    /\ result.results[i].old_orientation
                           = result.results[i].new_orientation
                    /\ ~BatchRead(monitors.monitors[i].device_path)
                    /\ ~BatchWrote(monitors.monitors[i].device_path)
        /\ (/\ monitors.count = 3
            /\ applicable_selectors = parse_selector_list("M1,M3")
            /\ args.exclude_selectors = parse_selector_list("M3"))
              => rotated = <<"M1">>

C1_Witness ==
    /\ pc = "api_rollback"
    /\ ~glob.g_dry_run
    /\ monitors.count = 3
    /\ applicable_selectors = parse_selector_list("M1,M3")
    /\ args.exclude_selectors = parse_selector_list("M3")
    /\ rotated = <<"M1">>
    /\ Len(writes) = 1
    /\ result.results[2].success /\ result.results[3].success

----------------------------------------------------------------------------
\* The snapshot read the settings of device d.
C2_Captured(d) ==
    \E k \in DOMAIN reads : reads[k] = ReadCall(DeviceName(d), TRUE, "snapshot")

\* Every read and write of the restore succeeded.
C2_RestoreSucceeded ==
    /\ \A k \in DOMAIN reads : reads[k].by = "rollback" => reads[k].ok
    /\ \A k \in DOMAIN writes :
          writes[k].by = "rollback" => writes[k].code = DISP_CHANGE_SUCCESSFUL

\* C2: after create_rollback_state, a batch and a rollback_monitors call
\* with dry_run = false whose reads and writes all succeed, every monitor
\* the snapshot captured is back at exactly the orientation, width and
\* height it had when the snapshot was taken.
C2_SnapshotRestoreRoundTrip ==
    (pc = "api_done" /\ ~glob.g_dry_run /\ C2_RestoreSucceeded) =>
        \A d \in Devices : C2_Captured(d) => display[d] = snapshot_at.display[d]

C2_Witness ==
    /\ pc = "api_done"
    /\ ~glob.g_dry_run
    /\ C2_RestoreSucceeded
    /\ C2_Captured(1)
    /\ snapshot_at.display[1] = ModeAt(DMDO_DEFAULT)
    /\ \E k \in DOMAIN writes :
          /\ writes[k].by = "rotate"
          /\ writes[k].device_path = DeviceName(1)
          /\ writes[k].code = DISP_CHANGE_SUCCESSFUL
          /\ writes[k].devmode.dmDisplayOrientation = DMDO_90
          /\ writes[k].devmode.dmPelsWidth = 1080
          /\ writes[k].devmode.dmPelsHeight = 1920
    /\ display[1] = ModeAt(DMDO_DEFAULT)

----------------------------------------------------------------------------
\* C3: in interactive confirm mode, y / Y keeps the changes with no restore
\* call; any other key makes exactly one restore call, on a snapshot taken
\* before the batch wrote anything, and the displays are back in their
\* pre-rotation state.
C3_InteractiveConfirm ==
    (pc \in {"finish", "done"} /\ glob.g_revert_seconds <= 0 /\ Len(keys) = 1) =>
        IF keys[1] \in ConfirmKeys
        THEN decision = "Kept" /\ restores = << >>
        ELSE /\ Len(restores) = 1
             /\ snapshot_at.taken
             /\ snapshot_at.nwrites = 0
             /\ display = batch_at.display

----------------------------------------------------------------------------
\* The countdown of start_revert_timer has begun.
C4_TimerEntered ==
    /\ glob.g_revert_seconds > 0
    /\ pc = "timer" \/ decision \in {"Kept", "Expired"}

\* The snapshot holds the settings the displays had before any write.
C4_SnapshotIsPreBatch ==
    /\ snapshot_at.taken
    /\ snapshot_at.nwrites = 0
    /\ ~IsNull(rollback_state)
    /\ \A k \in 1..rollback_state.count :
          LET info == rollback_state.infos[k]
              was == snapshot_at.display[DevOf(info.device_path)]
          IN  /\ info.original_orientation = was.orientation
              /\ info.original_width = was.width
              /\ info.original_height = was.height

\* C4: in timed auto-revert mode with a snapshot, a y / Y key read during
\* the countdown ends the window with the changes kept and no restore call;
\* the changes are kept only by such a key; when the countdown ends with no
\* confirming key, rollback_monitors is called exactly once, with
\* dry_run = false, on the snapshot taken before the batch wrote anything.
C4_TimedAutoRevert ==
    C4_TimerEntered =>
        /\ (\E k \in DOMAIN keys : keys[k] \in ConfirmKeys) =>
              /\ decision = "Kept"
              /\ pc \in {"finish", "done"}
              /\ restores = << >>
        /\ decision = "Kept" => keys[Len(keys)] \in ConfirmKeys
        /\ pc = "timer" => restores = << >> /\ decision = "None"
        /\ Len(keys) <= glob.g_revert_seconds
        /\ (pc \in {"finish", "done"} /\ \A k \in DOMAIN keys : keys[k] \notin ConfirmKeys) =>
              /\ decision = "Expired"
              /\ Len(restores) = 1
              /\ ~restores[1].dry_run
              /\ restores[1].rollback_state = rollback_state
              /\ C4_SnapshotIsPreBatch

C4_Witness ==
    /\ pc = "done"
    /\ glob.g_revert_seconds > 0
    /\ decision = "Expired"
    /\ keys = <<"n">>
    /\ Len(restores) = 1
    /\ \E k \in DOMAIN writes : writes[k].by = "rollback"

----------------------------------------------------------------------------
\* The command line has --dry-run before a rotation command.
C5_DryRunRequested ==
    \E k \in 2..Len(argv) :
        /\ argv[k] = "--dry-run"
        /\ \E c \in (k + 1)..Len(argv) : argv[c] \in RotationCommands

\* C5: a rotation command invoked with the --dry-run flag never calls the
\* display writer.
C5_DryRunFlagNeverWrites ==
    C5_DryRunRequested => writes = << >>

----------------------------------------------------------------------------
\* The step in which the batch runs.
C6_BatchStep == pc = "api_rotate" /\ pc' = "api_rollback"

\* C6: a rotate_monitor call with dry_run = true makes no display-writer
\* call and leaves every device's orientation, width and height unchanged;
\* when its live read succeeds, its outcome has old_orientation = the live
\* orientation and new_orientation = get_target_orientation(live, command).
C6_DryRunRotateIsReadOnly ==
    [][(C6_BatchStep /\ glob.g_dry_run) =>
          /\ writes' = writes
          /\ display' = display
          /\ \A i \in 1..monitors.count :
                LET monitor == monitors.monitors[i]
                    live == display[DevOf(monitor.device_path)].orientation
                IN  (/\ monitor.id \in Range(rotated')
                     /\ ReadCall(monitor.device_path, TRUE, "rotate") \in Range(reads'))
                       => /\ result'.results[i].old_orientation = live
                          /\ result'.results[i].new_orientation
                                 = get_target_orientation(live, command)]_vars

C6_Witness ==
    /\ pc = "api_rollback"
    /\ glob.g_dry_run
    /\ writes = << >>
    /\ display = batch_at.display
    /\ \E i \in 1..monitors.count :
          /\ monitors.monitors[i].id \in Range(rotated)
          /\ result.results[i].success
          /\ result.results[i].old_orientation = DMDO_270
          /\ result.results[i].new_orientation = DMDO_DEFAULT

----------------------------------------------------------------------------
\* C7 (as claimed): in dry-run mode every selected monitor is reported as
\* succeeded whatever the display-settings reader returns, so a dry-run
\* batch has failure_count = 0.
C7_DryRunAlwaysSucceeds ==
    (ApiBatchDone /\ glob.g_dry_run) =>
        /\ result.failure_count = 0
        /\ \A i \in 1..monitors.count :
              monitors.monitors[i].id \in Range(rotated) => result.results[i].success

\* C7 (amended): in dry-run mode a selected monitor is reported as succeeded
\* iff its live read succeeds; a selected monitor whose read fails is
\* reported failed with DISP_CHANGE_BADMODE, so failure_count is the number
\* of selected monitors whose read failed.
C7_DryRunSucceedsIffReadable ==
    (ApiBatchDone /\ glob.g_dry_run) =>
        /\ \A i \in 1..monitors.count :
              monitors.monitors[i].id \in Range(rotated) =>
                 /\ result.results[i].success
                        <=> BatchReadOk(monitors.monitors[i].device_path)
                 /\ ~result.results[i].success
                        => result.results[i].error_code = DISP_CHANGE_BADMODE
        /\ result.failure_count
               = Cardinality({k \in DOMAIN reads : reads[k].by = "rotate" /\ ~reads[k].ok})
        /\ result.success_count
               = Cardinality({k \in DOMAIN reads : reads[k].by = "rotate" /\ reads[k].ok})

C7_Witness ==
    /\ pc = "api_rollback"
    /\ glob.g_dry_run
    /\ result.success_count > 0
    /\ result.failure_count > 0
    /\ writes = << >>

----------------------------------------------------------------------------
\* C8: once the batch has run, the exit code is 3 if a processed monitor
\* failed, else 2 if no monitor was processed successfully, else 0,
\* whatever happened in the confirmation window and the restore.
C8_ExitCodeFromBatchCounts ==
    (pc = "done" /\ batch_at.taken) =>
        /\ exit_code = (IF result.failure_count > 0 THEN 3
                        ELSE IF result.success_count = 0 THEN 2
                        ELSE 0)
        /\ result.failure_count > 0 <=>
              \E i \in 1..monitors.count : ~result.results[i].success
        /\ result.success_count = 0 <=>
              \A i \in 1..monitors.count :
                  monitors.monitors[i].id \in Range(rotated) => ~result.results[i].success

C8_Witness ==
    /\ pc = "done"
    /\ exit_code = 0
    /\ decision = "Expired"
    /\ ~restores[1].all_successful

----------------------------------------------------------------------------
\* Neither the command line nor the configuration names monitors.
C9_NoIncludeSource ==
    /\ \A k \in 1..Len(argv) : argv[k] \notin {"--only", "--include"}
    /\ IsNull(config) \/ config.default_selector = << >>

\* C9: with no --only, no --include and no saved default selector, every
\* inventory monitor that no exclude selector matches is processed.
C9_NoSelectorMeansAll ==
    (batch_at.taken /\ C9_NoIncludeSource) =>
        \A i \in 1..monitors.count :
            ~(Given(args.exclude_selectors) /\ ListMatches(args.exclude_selectors, i))
                => monitors.monitors[i].id \in Range(rotated)

----------------------------------------------------------------------------
\* The include list of the highest-priority source that is present.
C10_ExpectedInclude ==
    IF ~IsNull(args.only_selector)
    THEN [selectors |-> <<args.only_selector>>, count |-> 1]
    ELSE IF ~IsNull(args.include_selectors) THEN args.include_selectors
    ELSE IF ~IsNull(config) /\ config.default_selector # << >>
    THEN parse_selector_list(config.default_selector[1])
    ELSE NullPtr

\* C10: the include set the batch uses is the --only selector if given,
\* else the --include list if given, else the saved default selector if
\* there is one, else no include set at all (all monitors).
C10_IncludeSetByPriority ==
    batch_at.taken =>
        \A i \in 1..monitors.count :
            (Given(applicable_selectors) => ListMatches(applicable_selectors, i))
                <=> (Given(C10_ExpectedInclude) => ListMatches(C10_ExpectedInclude, i))

----------------------------------------------------------------------------
\* The command line has an --include list and no --only selector.
C11_IncludeListGiven ==
    /\ \E k \in 1..Len(argv) : argv[k] = "--include"
    /\ \A k \in 1..Len(argv) : argv[k] # "--only"
    /\ ~IsNull(args.include_selectors)

\* C11: with --include <list> and no --only, every monitor that matches at
\* least one selector of the list and no exclude selector is processed.
C11_IncludeListProcessed ==
    (batch_at.taken /\ C11_IncludeListGiven) =>
        \A i \in 1..monitors.count :
            (/\ ListMatches(args.include_selectors, i)
             /\ ~(Given(args.exclude_selectors) /\ ListMatches(args.exclude_selectors, i)))
                => monitors.monitors[i].id \in Range(rotated)

----------------------------------------------------------------------------
\* A name:" or device:" token with no closing quote.
C12_Unterminated(token) ==
    \/ str_starts_with(token, "name:\"")
          /\ strrchr(SubSeq(token, 7, Len(token)), "\"") = 0
    \/ str_starts_with(token, "device:\"")
          /\ strrchr(SubSeq(token, 9, Len(token)), "\"") = 0

\* The command line has a malformed selector.
C12_Malformed ==
    \E k \in 1..(Len(argv) - 1) :
        \/ argv[k] = "--only" /\ C12_Unterminated(argv[k + 1])
        \/ /\ argv[k] \in {"--include", "--exclude"}
           /\ \E part \in Range(str_split(argv[k + 1], ",").parts) :
                 C12_Unterminated(part)

\* C12: a malformed selector is fatal to the command: no display write is
\* issued and the command does not end with exit code 0.
C12_MalformedSelectorIsFatal ==
    C12_Malformed => /\ writes = << >>
                     /\ pc = "done" => exit_code # 0

----------------------------------------------------------------------------
\* The inventory index of the monitor with the given id.
C13_IndexOf(id) == CHOOSE i \in 1..monitors.count : monitors.monitors[i].id = id

C13_IsBatchRead(call) == call.by = "rotate"

C13_IsBatchWrite(call) == call.by = "rotate"

\* The monitors handed to rotate_monitor, as inventory indices.
C13_Processed == {C13_IndexOf(id) : id \in Range(rotated)}

\* C13: a batch gives exactly one outcome per inventory monitor, at the
\* monitor's index; monitors are handled in inventory order; every selected
\* monitor is handled whatever happened to the ones before it; a monitor
\* is read once and written at most once; success_count and failure_count
\* count the handled monitors that succeeded and failed.
C13_OneOutcomePerMonitorInOrder ==
    ApiBatchDone =>
        LET batchReads == SelectSeq(reads, C13_IsBatchRead)
            batchWrites == SelectSeq(writes, C13_IsBatchWrite)
        IN  /\ Len(result.results) = monitors.count
            /\ \A i \in 1..monitors.count :
                  C1_Selected(i) => monitors.monitors[i].id \in Range(rotated)
            /\ \A a, b \in DOMAIN rotated :
                  a < b => C13_IndexOf(rotated[a]) < C13_IndexOf(rotated[b])
            /\ Len(batchReads) = Len(rotated)
            /\ \A k \in DOMAIN rotated :
                  batchReads[k].device_path
                      = monitors.monitors[C13_IndexOf(rotated[k])].device_path
            /\ \A a, b \in DOMAIN batchWrites :
                  a < b =>
                     /\ batchWrites[a].device_path # batchWrites[b].device_path
                     /\ DevOf(batchWrites[a].device_path) < DevOf(batchWrites[b].device_path)
            /\ \A k \in DOMAIN batchWrites :
                  \E i \in C13_Processed :
                     /\ monitors.monitors[i].device_path = batchWrites[k].device_path
                     /\ result.results[i].error_code = batchWrites[k].code
                     /\ result.results[i].success
                            <=> batchWrites[k].code = DISP_CHANGE_SUCCESSFUL
            /\ result.success_count
                   = Cardinality({i \in C13_Processed : result.results[i].success})
            /\ result.failure_count
                   = Cardinality({i \in C13_Processed : ~result.results[i].success})

C13_Witness ==
    /\ pc = "api_rollback"
    /\ monitors.count = 3
    /\ rotated = <<"M1", "M2", "M3">>
    /\ ~result.results[2].success
    /\ result.results[2].error_code = DISP_CHANGE_FAILED
    /\ result.results[1].success /\ result.results[3].success
    /\ result.success_count = 2
    /\ result.failure_count = 1
    /\ Len(SelectSeq(writes, C13_IsBatchWrite)) = 3

----------------------------------------------------------------------------
\* The orientation device of a monitor reported when the batch began.
LiveAtBatch(i) == batch_at.display[DevOf(monitors.monitors[i].device_path)].orientation

\* The monitors the batch handled and could read, as inventory indices.
ReadableProcessed ==
    {i \in 1..monitors.count :
        /\ monitors.monitors[i].id \in Range(rotated)
        /\ BatchReadOk(monitors.monitors[i].device_path)}

\* The target orientation table.
C14_Table(current, cmd) ==
    IF cmd = "landscape" THEN DMDO_DEFAULT
    ELSE IF cmd = "portrait" THEN DMDO_90
    ELSE IF current = DMDO_DEFAULT THEN DMDO_90 ELSE DMDO_DEFAULT

\* C14: for every current orientation, landscape yields 0 and portrait
\* yields 90; toggle yields 90 if the current orientation is 0 and 0
\* otherwise; the outcomes of a batch carry these targets.
C14_TargetOrientationTable ==
    /\ \A current \in Orientations : \A cmd \in RotationCommands :
          get_target_orientation(current, cmd) = C14_Table(current, cmd)
    /\ ApiBatchDone =>
          \A i \in ReadableProcessed :
              result.results[i].new_orientation = C14_Table(LiveAtBatch(i), command)

C14_Witness ==
    /\ pc = "api_rollback"
    /\ command = "toggle"
    /\ ~glob.g_dry_run
    /\ \E i \in ReadableProcessed :
          /\ LiveAtBatch(i) = DMDO_270
          /\ result.results[i].success
          /\ result.results[i].new_orientation = DMDO_DEFAULT
          /\ display[DevOf(monitors.monitors[i].device_path)] = ModeAt(DMDO_DEFAULT)

----------------------------------------------------------------------------
\* The orientation the batch wrote to the device of monitor i.
C15_Written(i) ==
    {writes[k].devmode.dmDisplayOrientation :
        k \in {j \in DOMAIN writes :
                  /\ writes[j].by = "rotate"
                  /\ writes[j].device_path = monitors.monitors[i].device_path}}

\* C15 (as claimed): the toggle target is 0 when the current orientation
\* is 90, and 90 when it is 0, 180 or 270.
C15_ToggleIsZeroOnlyFrom90 ==
    /\ get_target_orientation(DMDO_90, ROTATION_TOGGLE) = DMDO_DEFAULT
    /\ \A current \in {DMDO_DEFAULT, DMDO_180, DMDO_270} :
          get_target_orientation(current, ROTATION_TOGGLE) = DMDO_90
    /\ (ApiBatchDone /\ command = ROTATION_TOGGLE) =>
          \A i \in ReadableProcessed :
              result.results[i].new_orientation
                  = (IF LiveAtBatch(i) = DMDO_90 THEN DMDO_DEFAULT ELSE DMDO_90)

\* C15 (amended): the toggle target is 90 when the current orientation is
\* 0, and 0 when it is 90, 180 or 270; toggling twice returns to the
\* original orientation from 0 and from 90 only; a toggle batch writes
\* these targets.
C15_ToggleIs90OnlyFrom0 ==
    /\ get_target_orientation(DMDO_DEFAULT, ROTATION_TOGGLE) = DMDO_90
    /\ \A current \in {DMDO_90, DMDO_180, DMDO_270} :
          get_target_orientation(current, ROTATION_TOGGLE) = DMDO_DEFAULT
    /\ \A current \in Orientations :
          get_target_orientation(get_target_orientation(current, ROTATION_TOGGLE),
                                 ROTATION_TOGGLE) = current
              <=> current \in {DMDO_DEFAULT, DMDO_90}
    /\ (ApiBatchDone /\ command = ROTATION_TOGGLE /\ ~glob.g_dry_run) =>
          \A i \in ReadableProcessed :
              C15_Written(i) = {IF LiveAtBatch(i) = DMDO_DEFAULT
                                THEN DMDO_90 ELSE DMDO_DEFAULT}

C15_Witness ==
    /\ pc = "api_rollback"
    /\ command = ROTATION_TOGGLE
    /\ ~glob.g_dry_run
    /\ \E i \in ReadableProcessed :
          /\ LiveAtBatch(i) = DMDO_180
          /\ C15_Written(i) = {DMDO_DEFAULT}
          /\ result.results[i].success

----------------------------------------------------------------------------
\* Exactly one of the two orientations is 90 or 270 degrees.
C16_OnePortrait(from, to) ==
    (from \in {DMDO_90, DMDO_270}) # (to \in {DMDO_90, DMDO_270})

\* C16: should_swap_dimensions(from, to) holds iff exactly one of from, to
\* is 90 or 270; a successful write of rotate_monitor carries the live
\* width and height exchanged iff that holds for the live and the target
\* orientation, and carries them unchanged otherwise.
C16_SwapIffOnePortrait ==
    /\ \A from, to \in Orientations :
          should_swap_dimensions(from, to) <=> C16_OnePortrait(from, to)
    /\ ApiBatchDone =>
          \A k \in DOMAIN writes :
              (writes[k].by = "rotate" /\ writes[k].code = DISP_CHANGE_SUCCESSFUL) =>
                  LET live == batch_at.display[DevOf(writes[k].device_path)]
                      devmode == writes[k].devmode
                  IN  IF C16_OnePortrait(live.orientation, devmode.dmDisplayOrientation)
                      THEN /\ devmode.dmPelsWidth = live.height
                           /\ devmode.dmPelsHeight = live.width
                      ELSE /\ devmode.dmPelsWidth = live.width
                           /\ devmode.dmPelsHeight = live.height

C16_Witness ==
    /\ pc = "api_rollback"
    /\ \E k \in DOMAIN writes :
          /\ writes[k].by = "rotate"
          /\ writes[k].code = DISP_CHANGE_SUCCESSFUL
          /\ batch_at.display[DevOf(writes[k].device_path)] = ModeAt(DMDO_270)
          /\ writes[k].devmode.dmDisplayOrientation = DMDO_90
          /\ writes[k].devmode.dmPelsWidth = 1080
          /\ writes[k].devmode.dmPelsHeight = 1920
    /\ \E k \in DOMAIN writes :
          /\ writes[k].by = "rotate"
          /\ writes[k].code = DISP_CHANGE_SUCCESSFUL
          /\ batch_at.display[DevOf(writes[k].device_path)] = ModeAt(DMDO_DEFAULT)
          /\ writes[k].devmode.dmDisplayOrientation = DMDO_90
          /\ writes[k].devmode.dmPelsWidth = 1080
          /\ writes[k].devmode.dmPelsHeight = 1920

----------------------------------------------------------------------------
\* Selector tokens and the selector each is expected to parse to.
C17_Cases ==
    {[token |-> "M1", type |-> SELECTOR_TYPE_MONITOR_ID, value |-> "M1"],
     [token |-> "M3", type |-> SELECTOR_TYPE_MONITOR_ID, value |-> "M3"],
     [token |-> "M12", type |-> SELECTOR_TYPE_MONITOR_ID, value |-> "M12"],
     [token |-> "m1", type |-> SELECTOR_TYPE_MONITOR_ID, value |-> "m1"],
     [token |-> "Mx", type |-> SELECTOR_TYPE_MONITOR_ID, value |-> "Mx"],
     [token |-> "*", type |-> SELECTOR_TYPE_MONITOR_ID, value |-> "*"],
     [token |-> "Dell", type |-> SELECTOR_TYPE_MONITOR_ID, value |-> "Dell"],
     [token |-> "name:dell", type |-> SELECTOR_TYPE_MONITOR_ID, value |-> "name:dell"],
     [token |-> "device:\"\\\\.\\DISPLAY1\"",
      type |-> SELECTOR_TYPE_DEVICE_PATH, value |-> "\\\\.\\DISPLAY1"],
     [token |-> "device:\"\\\\.\\display2\"",
      type |-> SELECTOR_TYPE_DEVICE_PATH, value |-> "\\\\.\\display2"],
     [token |-> "device:\"DISPLAY3\"",
      type |-> SELECTOR_TYPE_DEVICE_PATH, value |-> "DISPLAY3"],
     [token |-> "name:\"dell\"", type |-> SELECTOR_TYPE_DEVICE_NAME, value |-> "dell"],
     [token |-> "name:\"LG\"", type |-> SELECTOR_TYPE_DEVICE_NAME, value |-> "LG"],
     [token |-> "name:\"l u\"", type |-> SELECTOR_TYPE_DEVICE_NAME, value |-> "l u"],
     [token |-> "name:\"P2419H\"", type |-> SELECTOR_TYPE_DEVICE_NAME, value |-> "P2419H"],
     [token |-> "name:\"M1\"", type |-> SELECTOR_TYPE_DEVICE_NAME, value |-> "M1"]}

\* a and b are the same text when upper and lower case are not told apart.
C17_SameIgnoringCase(a, b) ==
    /\ Len(a) = Len(b)
    /\ \A j \in 1..Len(a) : tolower(CharAt(a, j)) = tolower(CharAt(b, j))

\* The selector semantics as stated: exact id, exact device path, or
\* substring of the device name ignoring case.
C17_Expected(type, value, monitor_id, device_path, device_name) ==
    \/ type = SELECTOR_TYPE_MONITOR_ID /\ monitor_id = value
    \/ type = SELECTOR_TYPE_DEVICE_PATH /\ device_path = value
    \/ /\ type = SELECTOR_TYPE_DEVICE_NAME
       /\ \E k \in 0..(Len(device_name) - Len(value)) :
             C17_SameIgnoringCase(SubSeq(device_name, k + 1, k + Len(value)), value)

\* C17: parse_selector turns device:"<path>" into a device-path selector,
\* name:"<s>" into a name selector and any other token into a monitor-id
\* selector holding the token verbatim; matches_monitor holds iff the id
\* equals the value, the device path equals the value, or the device name
\* contains the value ignoring case; the token * matches no monitor M<n>;
\* an include list alone selects exactly the monitors it matches that way.
C17_SelectorSemantics ==
    /\ \A c \in C17_Cases :
          /\ parse_selector(c.token) = [type |-> c.type, value |-> c.value]
          /\ \A d \in Devices :
                matches_monitor(parse_selector(c.token), "M" \o IntToStr(d),
                                DeviceName(d), DeviceString(d))
                    <=> C17_Expected(c.type, c.value, "M" \o IntToStr(d),
                                     DeviceName(d), DeviceString(d))
    /\ \A d \in Devices :
          ~matches_monitor(parse_selector("*"), "M" \o IntToStr(d),
                           DeviceName(d), DeviceString(d))
    /\ (ApiBatchDone /\ Given(applicable_selectors) /\ ~Given(args.exclude_selectors)) =>
          \A i \in 1..monitors.count :
              BatchRead(monitors.monitors[i].device_path)
                  <=> \E j \in 1..applicable_selectors.count :
                         C17_Expected(applicable_selectors.selectors[j].type,
                                      applicable_selectors.selectors[j].value,
                                      monitors.monitors[i].id,
                                      monitors.monitors[i].device_path,
                                      monitors.monitors[i].device_name)

C17_Witness ==
    /\ pc = "api_rollback"
    /\ monitors.count = 3
    /\ applicable_selectors = parse_selector_list("name:\"dell\"")
    /\ ~Given(args.exclude_selectors)
    /\ monitors.monitors[1].device_name = "Dell U2720Q"
    /\ monitors.monitors[3].device_name = "DELL P2419H"
    /\ BatchRead(monitors.monitors[1].device_path)
    /\ ~BatchRead(monitors.monitors[2].device_path)
    /\ BatchRead(monitors.monitors[3].device_path)

----------------------------------------------------------------------------
C18_IsRollbackCall(call) == call.by = "rollback"

\* The reader and writer calls of the restore, in call order.
C18_Reads == SelectSeq(reads, C18_IsRollbackCall)

C18_Writes == SelectSeq(writes, C18_IsRollbackCall)

\* The number of entries of the snapshot handed to the restore.
C18_Entries == IF IsNull(rollback_state) THEN 0 ELSE rollback_state.count

\* The snapshot entries whose live read succeeded, in order.
C18_ReadOkEntries ==
    SelectSeq([k \in 1..C18_Entries |-> k], LAMBDA k : C18_Reads[k].ok)

\* C18: rollback_monitors with dry_run = false attempts every snapshot
\* entry in order, also after an earlier entry failed: one live read per
\* entry and one write per entry that was read.  It returns true iff every
\* read succeeded and every write returned success; a NULL or empty
\* snapshot returns true with no call at all.
C18_RestoreIsBestEffort ==
    (pc = "api_done" /\ ~glob.g_dry_run) =>
        /\ Len(restores) = 1
        /\ Len(C18_Reads) = C18_Entries
        /\ \A k \in 1..C18_Entries :
              C18_Reads[k].device_path = rollback_state.infos[k].device_path
        /\ Len(C18_Writes) = Len(C18_ReadOkEntries)
        /\ \A k \in DOMAIN C18_Writes :
              C18_Writes[k].device_path =
                  rollback_state.infos[C18_ReadOkEntries[k]].device_path
        /\ restores[1].all_successful
              <=> /\ \A k \in DOMAIN C18_Reads : C18_Reads[k].ok
                  /\ \A k \in DOMAIN C18_Writes :
                        C18_Writes[k].code = DISP_CHANGE_SUCCESSFUL
        /\ C18_Entries = 0 =>
              restores[1].all_successful /\ C18_Reads = << >> /\ C18_Writes = << >>

C18_Witness ==
    /\ pc = "api_done"
    /\ ~glob.g_dry_run
    /\ C18_Entries >= 2
    /\ Len(C18_Reads) = C18_Entries
    /\ ~C18_Reads[1].ok
    /\ \E k \in DOMAIN C18_Writes :
          /\ C18_Writes[k].device_path = rollback_state.infos[2].device_path
          /\ C18_Writes[k].code = DISP_CHANGE_SUCCESSFUL
    /\ ~restores[1].all_successful

----------------------------------------------------------------------------
\* The command line has --no-confirm before a rotation command.
C19_NoConfirmRequested ==
    \E k \in 2..Len(argv) :
        /\ argv[k] = "--no-confirm"
        /\ \E c \in (k + 1)..Len(argv) : argv[c] \in RotationCommands

\* C19: a rotation command invoked with --no-confirm never waits for a key
\* press or a countdown tick and never calls the restore.
C19_NoConfirmNeverWaits ==
    C19_NoConfirmRequested =>
        /\ pc \notin {"prompt", "timer"}
        /\ keys = << >>
        /\ restores = << >>

----------------------------------------------------------------------------
\* The monitors the batch left alone, as inventory indices.
C20_FilteredOut ==
    {i \in 1..monitors.count : monitors.monitors[i].id \notin Range(rotated)}

\* C20: every outcome of a batch, the no-op outcome of a filtered-out
\* monitor included, has old_orientation equal to the orientation the
\* device reports live at the batch, not the one cached at enumeration.
C20_OldOrientationIsLive ==
    ApiBatchDone =>
        \A i \in ReadableProcessed \cup C20_FilteredOut :
            result.results[i].old_orientation = LiveAtBatch(i)

----------------------------------------------------------------------------
\* C21: filtered-out monitors count toward success_count: after a batch,
\* success_count + failure_count is the number of inventory monitors and
\* success_count is the number of outcomes marked succeeded.
C21_NoOpsCountAsSuccess ==
    ApiBatchDone =>
        /\ result.success_count + result.failure_count = monitors.count
        /\ result.success_count =
               Cardinality({i \in DOMAIN result.results : result.results[i].success})

\* C21, as the code has it: a filtered-out monitor's outcome is marked
\* succeeded but is counted in neither tally; success_count and
\* failure_count are the numbers of monitors handed to rotate_monitor whose
\* outcome is marked succeeded and failed.
C21_CountsTallyProcessedOnly ==
    ApiBatchDone =>
        /\ Len(result.results) = monitors.count
        /\ \A i \in C20_FilteredOut : result.results[i].success
        /\ result.success_count =
               Cardinality({i \in C13_Processed : result.results[i].success})
        /\ result.failure_count =
               Cardinality({i \in C13_Processed : ~result.results[i].success})
        /\ result.success_count + result.failure_count = Cardinality(C13_Processed)

C21_Witness ==
    /\ pc = "api_rollback"
    /\ monitors.count = 3
    /\ Cardinality(C20_FilteredOut) = 1
    /\ \A i \in C20_FilteredOut : result.results[i].success
    /\ result.success_count = 1
    /\ result.failure_count = 1
    /\ Cardinality({i \in DOMAIN result.results : result.results[i].success}) = 2

----------------------------------------------------------------------------
\* The snapshot entry holds the mode its device had when the snapshot was
\* taken.
C22_EntryIsSnapshotTimeMode(info) ==
    LET mode == snapshot_at.display[DevOf(info.device_path)]
    IN  /\ info.original_orientation = mode.orientation
        /\ info.original_width = mode.width
        /\ info.original_height = mode.height

\* C22: in one command run the rollback snapshot is created before the
\* first display write, so it holds the values from before the rotation,
\* and rollback_monitors is called on it at most once, whichever
\* confirmation mode is active and whatever keys are pressed.
C22_SnapshotBeforeBatchRestoreAtMostOnce ==
    /\ snapshot_at.taken => snapshot_at.nwrites = 0
    /\ (writes # << >> /\ ~IsNull(rollback_state)) => snapshot_at.taken
    /\ ~IsNull(rollback_state) =>
          \A k \in 1..rollback_state.count :
              C22_EntryIsSnapshotTimeMode(rollback_state.infos[k])
    /\ Len(restores) <= 1
    /\ \A k \in DOMAIN restores :
          /\ restores[k].rollback_state = rollback_state
          /\ ~IsNull(rollback_state)

C22_Witness ==
    /\ pc = "done"
    /\ snapshot_at.taken
    /\ Len(keys) >= 1
    /\ Len(restores) = 1
    /\ \E k \in DOMAIN writes : writes[k].by = "rotate"
    /\ \E k \in DOMAIN writes : writes[k].by = "rollback"

----------------------------------------------------------------------------
C23_IsSnapshotRead(call) == call.by = "snapshot"

\* The reader calls of the snapshot, in call order.
C23_Reads == SelectSeq(reads, C23_IsSnapshotRead)

\* The inventory indices whose snapshot read succeeded, in order.
C23_Recorded ==
    SelectSeq([k \in 1..monitors.count |-> k], LAMBDA k : C23_Reads[k].ok)

\* C23: create_rollback_state reads every inventory monitor once and
\* records, for each monitor whose read succeeds, the live orientation,
\* width and height at the time of the call, not the inventory's cached
\* values; a monitor whose read fails is skipped, entries keep inventory
\* order, and the result is NULL when no monitor could be recorded.
C23_SnapshotRecordsLiveReadable ==
    (snapshot_at.taken /\ pc \in {"api_rotate", "api_rollback", "api_done"}) =>
        /\ Len(C23_Reads) = monitors.count
        /\ \A k \in 1..monitors.count :
              C23_Reads[k].device_path = monitors.monitors[k].device_path
        /\ IsNull(rollback_state) <=> C23_Recorded = << >>
        /\ ~IsNull(rollback_state) =>
              /\ rollback_state.count = Len(C23_Recorded)
              /\ Len(rollback_state.infos) = Len(C23_Recorded)
              /\ \A j \in 1..rollback_state.count :
                    LET info == rollback_state.infos[j]
                        mode == snapshot_at.display[DevOf(info.device_path)]
                    IN  /\ info.device_path =
                               monitors.monitors[C23_Recorded[j]].device_path
                        /\ info.original_orientation = mode.orientation
                        /\ info.original_width = mode.width
                        /\ info.original_height = mode.height

C23_Witness ==
    /\ pc = "api_rotate"
    /\ monitors.count >= 2
    /\ ~IsNull(rollback_state)
    /\ rollback_state.count = monitors.count
    /\ monitors.monitors[2].orientation = DMDO_DEFAULT
    /\ rollback_state.infos[2].device_path = monitors.monitors[2].device_path
    /\ rollback_state.infos[2].original_orientation = DMDO_270
    /\ rollback_state.infos[2].original_width = 1080
    /\ rollback_state.infos[2].original_height = 1920

----------------------------------------------------------------------------
\* The write restores the snapshot entry: its device, its saved
\* orientation, width and height, all three fields selected.
C24_WriteRestores(call, info) ==
    /\ call.device_path = info.device_path
    /\ call.devmode.dmDisplayOrientation = info.original_orientation
    /\ call.devmode.dmPelsWidth = info.original_width
    /\ call.devmode.dmPelsHeight = info.original_height
    /\ call.devmode.dmFields = {DM_DISPLAYORIENTATION, DM_PELSWIDTH, DM_PELSHEIGHT}

\* C24: rollback_monitors with dry_run = false issues a write for every
\* snapshot entry, whatever the live re-read returns, and the write always
\* sets the saved orientation, width and height together.
C24_RestoreWritesEveryEntry ==
    (pc = "api_done" /\ ~glob.g_dry_run) =>
        /\ Len(C18_Writes) = C18_Entries
        /\ \A k \in DOMAIN C18_Writes :
              C24_WriteRestores(C18_Writes[k], rollback_state.infos[k])

\* C24, as the code has it: the write is issued for every entry whose live
\* re-read succeeds and for no other; it always sets the saved orientation,
\* width and height together, whatever mode the re-read reports.
C24_RestoreWritesEveryReadableEntry ==
    (pc = "api_done" /\ ~glob.g_dry_run) =>
        /\ Len(C18_Writes) = Len(C18_ReadOkEntries)
        /\ \A k \in DOMAIN C18_Writes :
              C24_WriteRestores(C18_Writes[k],
                                rollback_state.infos[C18_ReadOkEntries[k]])

C24_Witness ==
    /\ pc = "api_done"
    /\ ~glob.g_dry_run
    /\ faults = MaxFaults
    /\ \E i \in C20_FilteredOut :
          /\ display[DevOf(monitors.monitors[i].device_path)] = ModeAt(DMDO_DEFAULT)
          /\ \E k \in DOMAIN C18_Writes :
                /\ C18_Writes[k].device_path = monitors.monitors[i].device_path
                /\ C18_Writes[k].devmode.dmDisplayOrientation = DMDO_DEFAULT
                /\ C18_Writes[k].devmode.dmFields =
                       {DM_DISPLAYORIENTATION, DM_PELSWIDTH, DM_PELSHEIGHT}
    /\ \E k \in DOMAIN writes :
          writes[k].by = "rotate" /\ writes[k].code = DISP_CHANGE_SUCCESSFUL

----------------------------------------------------------------------------
\* The snapshot made a read of the device; the read succeeded.
C25_SnapshotRead(device_path) ==
    \E k \in DOMAIN reads :
        reads[k].by = "snapshot" /\ reads[k].device_path = device_path

C25_SnapshotReadOk(device_path) ==
    \E k \in DOMAIN reads : reads[k] = ReadCall(device_path, TRUE, "snapshot")

\* The revert's live read of the device succeeded.
C25_RevertReadOk(device_path) ==
    \E k \in DOMAIN reads : reads[k] = ReadCall(device_path, TRUE, "rollback")

\* The revert wrote the device's snapshot-time mode, all three fields; if
\* the write succeeded the device shows that mode.
C25_Reset(device_path) ==
    LET was == snapshot_at.display[DevOf(device_path)]
    IN  \E k \in DOMAIN writes :
            /\ writes[k].by = "rollback"
            /\ writes[k].device_path = device_path
            /\ writes[k].devmode.dmDisplayOrientation = was.orientation
            /\ writes[k].devmode.dmPelsWidth = was.width
            /\ writes[k].devmode.dmPelsHeight = was.height
            /\ writes[k].devmode.dmFields =
                   {DM_DISPLAYORIENTATION, DM_PELSWIDTH, DM_PELSHEIGHT}
            /\ writes[k].code = DISP_CHANGE_SUCCESSFUL =>
                   display[DevOf(device_path)] = was

\* C25: the snapshot is taken over the whole inventory, so a revert writes
\* to every snapshotted monitor whose live read succeeds, monitors that
\* were filtered out of the batch or whose rotation failed included; the
\* monitor is reset to its snapshot-time orientation and size even if
\* another program changed it after the snapshot.
C25_RevertResetsWholeInventory ==
    (Len(restores) = 1 /\ pc \in {"finish", "done"}) =>
        \A i \in 1..monitors.count :
            LET device_path == monitors.monitors[i].device_path
            IN  /\ C25_SnapshotRead(device_path)
                /\ (C25_SnapshotReadOk(device_path) /\ C25_RevertReadOk(device_path))
                       => C25_Reset(device_path)

C25_Witness ==
    /\ pc = "done"
    /\ Len(restores) = 1
    /\ \E i \in C20_FilteredOut :
          LET d == DevOf(monitors.monitors[i].device_path)
          IN  /\ batch_at.display[d] # snapshot_at.display[d]
              /\ C25_Reset(monitors.monitors[i].device_path)
              /\ display[d] = snapshot_at.display[d]
    /\ \E k \in DOMAIN writes :
          writes[k].by = "rotate" /\ writes[k].code = DISP_CHANGE_SUCCESSFUL

----------------------------------------------------------------------------
\* Timed auto-revert was asked for and the snapshot came back NULL.
C26_TimedWithoutSnapshot ==
    /\ glob.g_revert_seconds > 0
    /\ snapshot_at.taken
    /\ IsNull(rollback_state)

\* C26: in timed auto-revert mode with no snapshot, start_revert_timer
\* returns at once: no countdown, no key read, no restore.  The rotation
\* that was applied stays in effect and the exit code is the batch outcome
\* code.
C26_NoSnapshotNoWindow ==
    C26_TimedWithoutSnapshot =>
        /\ pc \notin {"timer", "prompt"}
        /\ countdown = 0
        /\ keys = << >>
        /\ restores = << >>
        /\ decision = "None"
        /\ \A k \in DOMAIN writes : writes[k].by = "rotate"
        /\ pc = "done" =>
              /\ \A k \in DOMAIN writes :
                    writes[k].code = DISP_CHANGE_SUCCESSFUL =>
                        display[DevOf(writes[k].device_path)].orientation =
                            writes[k].devmode.dmDisplayOrientation
              /\ exit_code = IF result.failure_count > 0 THEN 3
                             ELSE IF result.success_count = 0 THEN 2
                             ELSE 0

C26_Witness ==
    /\ pc = "done"
    /\ C26_TimedWithoutSnapshot
    /\ result.success_count = 1
    /\ writes # << >>
    /\ writes[1].code = DISP_CHANGE_SUCCESSFUL
    /\ display[DevOf(writes[1].device_path)] = ModeAt(DMDO_90)
    /\ keys = << >>
    /\ restores = << >>
    /\ exit_code = 0

----------------------------------------------------------------------------
\* What one step may do while the countdown runs: a pass of the loop ends
\* (by the clock or by a key that does not confirm) and one second less is
\* left; a confirming key keeps the changes; the countdown is over and the
\* snapshot is restored; or another program acts and the countdown is not
\* touched.
C27_TimerStep ==
    pc = "timer" =>
        \/ /\ countdown > 0
           /\ countdown' = countdown - 1
           /\ pc' = "timer"
           /\ decision' = "None"
           /\ restores' = restores
           /\ keys' = keys \/ \E ch \in Keys \ ConfirmKeys : keys' = Append(keys, ch)
        \/ /\ countdown > 0
           /\ pc' = "finish"
           /\ decision' = "Kept"
           /\ restores' = restores
           /\ \E ch \in ConfirmKeys : keys' = Append(keys, ch)
        \/ /\ countdown = 0
           /\ pc' = "finish"
           /\ decision' = "Expired"
           /\ Len(restores') = Len(restores) + 1
           /\ keys' = keys
        \/ /\ pc' = "timer"
           /\ countdown' = countdown
           /\ keys' = keys
           /\ decision' = decision
           /\ restores' = restores

\* C27: in timed auto-revert mode with N > 0 seconds and a snapshot, under
\* any keyboard input and an advancing clock start_revert_timer returns
\* after at most N passes of its loop, with the changes kept or reverted; a
\* key that does not confirm only ends the current pass early.
C27_TimerAlwaysDecides ==
    /\ [](pc = "timer" =>
             /\ glob.g_revert_seconds > 0
             /\ ~IsNull(rollback_state)
             /\ countdown \in 0..glob.g_revert_seconds
             /\ Len(keys) <= glob.g_revert_seconds - countdown)
    /\ [][C27_TimerStep]_vars
    /\ (pc = "timer") ~> (pc # "timer" /\ decision \in {"Kept", "Expired"})

C27_Witness ==
    /\ pc = "done"
    /\ glob.g_revert_seconds = MaxRevertSeconds
    /\ Len(keys) = MaxRevertSeconds
    /\ \A k \in DOMAIN keys : keys[k] = "n"
    /\ decision = "Expired"
    /\ Len(restores) = 1

----------------------------------------------------------------------------
\* C28: over one rotation command run each heap-allocated selector value
\* string is freed at most once; in particular with --only the include
\* list built by get_applicable_selectors and the CliArgs only_selector
\* never both free the same value string.
C28_SelectorValueFreedAtMostOnce ==
    \A a, b \in DOMAIN frees : a # b => frees[a] # frees[b]

=============================================================================
